---- MODULE Spec2Model ----
\* OptimizedTradeManager (optimizedTradeManager.js): the trade ledger
\* (recordBuyTrade / recordSellTrade with a FIFO cost basis, the persisted
\* trading-history.json and the queries that read it), the quote comparison
\* of getBestRoute, and the buy and sell flows smartBuy, smartBuyV3, smartSell,
\* smartSellV3 with their smartBuyOptimal / smartSellOptimal wrappers.
\*
\* JavaScript numbers are modelled as exact rationals <<numerator, denominator>>
\* (denominator > 0, lowest terms); the non-finite results of a division by
\* zero have denominator 0: NaN = <<0, 0>>, Infinity = <<1, 0>>,
\* -Infinity = <<-1, 0>>, and the null of JSON is <<0, -1>>.  IEEE-754 rounding is not modelled: every equality
\* below is an equality of exact values.
EXTENDS Integers, Sequences, FiniteSets, TLC

\* ---------------------------------------------------------------- bounds
MaxCalls == 3
MaxTokens == 3
MaxClock == 1
MaxTrades == 2
MaxBalance == 5
MaxTasks == 2
MaxMinutes == 6
MaxBotTrades == 1

\* ---------------------------------------------------------------- inputs
TokenArgs == {"0xA", "0xb"}
BnbAmounts == {1, 2}
BuyTokenAmounts == {1, MaxTokens}
SellTokenAmounts == {0, 1, 2, MaxTokens + 1}
BnbReceivedValues == {0, 2}
GasValues == {2}
\* the inputs drawn when reads and writes may fail
TokenArgsIO == {"0xA"}
BnbAmountsFS == {1}
\* the expected amounts of the candidate quotes
QuoteAmounts == {95, 100, 110}
\* the arguments of the buy and sell flows
TradeTokens == {"0xA"}
TradeAmounts == {0, 1}
Entries == {"smartBuy", "smartBuyV3", "smartSell", "smartSellV3",
            "smartBuyOptimal", "smartSellOptimal"}
\* the amounts the routers quote for a swap
SwapQuotes == {1, 3}
\* process.env.DEFAULT_SLIPPAGE after parseInt: unset, 50 basis points
DefaultSlippages == {<<0, 0>>, <<50, 1>>}
\* the numbers sent with /slippage: 0.5, 51
SlippageInputs == {<<1, 2>>, <<51, 1>>}
SellTokenAmountsIO == {1, MaxTokens + 1}

\* ---------------------------------------------------------------- numbers
Abs(n) == IF n < 0 THEN -n ELSE n

RECURSIVE GCD(_, _)
GCD(a, b) == IF b = 0 THEN a ELSE GCD(b, a % b)

Norm(n, d) == IF n = 0 THEN <<0, 1>>
              ELSE LET g == GCD(Abs(n), d) IN <<n \div g, d \div g>>

R(n) == <<n, 1>>
Zero == R(0)
RAdd(x, y) == Norm(x[1] * y[2] + y[1] * x[2], x[2] * y[2])
RSub(x, y) == Norm(x[1] * y[2] - y[1] * x[2], x[2] * y[2])
RMul(x, y) == Norm(x[1] * y[1], x[2] * y[2])
RLt(x, y) == x[1] * y[2] < y[1] * x[2]
RLe(x, y) == x[1] * y[2] <= y[1] * x[2]
RAbs(x) == <<Abs(x[1]), x[2]>>
RMin(x, y) == IF RLt(y, x) THEN y ELSE x
NaN == <<0, 0>>
Infinity == <<1, 0>>
MinusInfinity == <<-1, 0>>
JsonNull == <<0, -1>>
IsFinite(x) == x[2] > 0

\* x / y as JavaScript computes it for finite x and y
RDiv(x, y) ==
  IF y[1] = 0
  THEN IF x[1] = 0 THEN NaN ELSE IF x[1] > 0 THEN Infinity ELSE MinusInfinity
  ELSE IF y[1] > 0 THEN Norm(x[1] * y[2], x[2] * y[1])
       ELSE Norm(-(x[1] * y[2]), x[2] * (-y[1]))

\* (x / y) * 100, non-finite values propagate
Percent(x, y) == LET q == RDiv(x, y) IN IF IsFinite(q) THEN RMul(q, R(100)) ELSE q

ToLowerCase(s) == IF s = "0xA" THEN "0xa" ELSE s

\* JSON.stringify writes a non-finite number as null, and null as null
JsonNumber(x) == IF IsFinite(x) THEN x ELSE JsonNull

\* ---------------------------------------------------------------- state
VARIABLES
  file,     \* the ledger last written to trading-history.json
  disk,     \* what trading-history.json holds: "ledger" (the JSON of file),
            \* "garbled" (a write stopped half way), "missing" (no file)
  now,      \* Date.now(), in milliseconds
  ncalls,   \* number of record calls made, also the source of txHash
  call,     \* the last call: operation, arguments, ledger as loaded, result
  bought,   \* per token: sum of tokenAmount over the buys that were written
  spent,    \* per token: sum of bnbAmount over the buys that were written
  quotes,   \* getBestRoute: the four candidate quotes of the call in progress
  route,    \* getBestRoute: position and result of the call
  flow,     \* the buy or sell invocation in progress: position, steps, result
  chain,    \* the token contract: the wallet's balance and its allowances
  tradedTokens, \* the list in traded-tokens.json
  settings, \* this.settings of the trade manager
  eventLoop, \* the invocations in flight in the process and the one that runs
  bot       \* the Telegram bot: its clock, its sessions, the last update handled

ledgerVars == <<file, disk, now, ncalls, call, bought, spent>>
routeVars == <<quotes, route>>
tradeVars == <<flow, chain, tradedTokens, settings>>
processVars == <<eventLoop, bot>>
vars == <<file, disk, now, ncalls, call, bought, spent, quotes, route,
          flow, chain, tradedTokens, settings, eventLoop, bot>>

StoredTokens == {ToLowerCase(t) : t \in TokenArgs}

EmptyLedger ==
  [trades |-> <<>>,
   summary |-> [totalTrades |-> 0, totalProfit |-> Zero,
                totalLoss |-> Zero, winRate |-> Zero]]

NullRet == [isNull |-> TRUE]

\* the constructor: ensureTradingHistoryFile has written the empty ledger
LedgerInit ==
  /\ file = EmptyLedger
  /\ disk = "ledger"
  /\ now = 0
  /\ ncalls = 0
  /\ call = [op |-> "none", tokenAddress |-> "", tokenAmount |-> Zero,
             bnb |-> Zero, gasUsed |-> Zero, readOK |-> TRUE, writeOK |-> TRUE,
             torn |-> FALSE, disk |-> "ledger",
             history |-> EmptyLedger, ret |-> NullRet]
  /\ bought = [t \in StoredTokens |-> Zero]
  /\ spent = [t \in StoredTokens |-> Zero]

\* the four candidates of getBestRoute, in the order of its Promise.allSettled
\* array; the V2 quote has no fee (0 here)
Candidates ==
  <<[version |-> "v2", fee |-> 0], [version |-> "v3", fee |-> 2500],
    [version |-> "v3", fee |-> 500], [version |-> "v3", fee |-> 10000]>>

QuoteFailed == [success |-> FALSE, expectedAmount |-> 0]
NoQuote == [status |-> "idle", value |-> QuoteFailed]
NoRoute == [success |-> FALSE, error |-> "none"]

RouteInit ==
  /\ quotes = [i \in DOMAIN Candidates |-> NoQuote]
  /\ route = [pc |-> "idle", isBuy |-> TRUE, result |-> NoRoute]

\* the routers: routerV2 and routerV3 of the constructor
Routers == {"v2", "v3"}
\* new OptimizedTradeManager(): routerVersion defaults to 'v2'
RouterVersion == "v2"
\* this.routerAddress
RouterAddress == IF RouterVersion = "v3" THEN "v3" ELSE "v2"
\* ethers.MaxUint256, as the largest integer of the model
MaxUint256 == 2147483647

IdleFlow ==
  [n |-> 0, pc |-> "idle", entry |-> "none", method |-> "none",
   tokenAddress |-> "", amount |-> Zero, fee |-> 0, steps |-> <<>>,
   failed |-> <<>>, expected |-> 0, amountOutMin |-> 0, swapRouter |-> "none",
   allowanceAtSubmit |-> 0, receipt |-> -1, result |-> "none",
   tokensBefore |-> {}, tweet |-> "none", slippage |-> Zero]

\* this.settings.slippage of the constructor:
\* (config.DEFAULT_SLIPPAGE / 100) || 5, DEFAULT_SLIPPAGE being a parseInt
DefaultSlippage(DEFAULT_SLIPPAGE) ==
  LET q == IF IsFinite(DEFAULT_SLIPPAGE) THEN RDiv(DEFAULT_SLIPPAGE, R(100))
           ELSE NaN
  IN IF ~IsFinite(q) \/ q = Zero THEN R(5) ELSE q

\* a manager that makes no trade: nothing held, nothing approved
TradeInit ==
  /\ flow = IdleFlow
  /\ chain = [balance |-> 0, allowance |-> [r \in Routers |-> 0]]
  /\ tradedTokens = {}
  /\ settings = [slippage |-> DefaultSlippage(NaN)]

\* an invocation that was not called yet
IdleTask ==
  [pc |-> "idle", kind |-> "none", tokenAddress |-> "", amount |-> Zero,
   expected |-> Zero, receipt |-> -1, history |-> EmptyLedger, ret |-> NullRet,
   overlapped |-> FALSE]

\* the chats that write to the bot, and config.ADMIN_CHAT_IDS
Chats == {"admin", "guest"}
AdminChatIds == {"admin"}

\* no entry for the chat in this.userSessions
NoSession == [state |-> "none", timestamp |-> 0]

\* no update was handled yet
NoUpdate ==
  [handler |-> "none", chat |-> "none", session |-> "none", amount |-> "",
   validToken |-> FALSE, balance |-> 0, outcome |-> "none"]

\* no invocation is in flight and nothing runs; the bot has an empty
\* userSessions map
ProcessInit ==
  /\ eventLoop = [running |-> 0, tasks |-> [p \in 1..MaxTasks |-> IdleTask]]
  /\ bot = [now |-> 0, sessions |-> [c \in Chats |-> NoSession],
            last |-> NoUpdate, caller |-> "none"]

Init == LedgerInit /\ RouteInit /\ TradeInit /\ ProcessInit

\* ---------------------------------------------------------------- ledger store
\* mutant: the content of the file is returned without being parsed
GetTradingHistoryUnparsed(readOK) ==
  IF ~readOK \/ disk = "missing" THEN EmptyLedger ELSE file

\* readFileSync throws when the file is missing or cannot be read, JSON.parse
\* throws on a garbled file; the catch returns the empty ledger
GetTradingHistory(readOK) ==
  IF ~readOK \/ disk = "missing" THEN EmptyLedger
  ELSE IF disk = "garbled" THEN EmptyLedger
  ELSE file

\* getTradingStats: totalTrades of the summary, the BUY and the SELL records
\* counted; records is the length of history.trades
GetTradingStats(readOK) ==
  LET history == GetTradingHistory(readOK)
      n == Len(history.trades)
  IN [totalTrades |-> history.summary.totalTrades,
      buyTrades |-> Cardinality({i \in 1..n : history.trades[i].type = "BUY"}),
      sellTrades |-> Cardinality({i \in 1..n : history.trades[i].type = "SELL"}),
      records |-> n]

StringifyTrade(t) ==
  IF t.type = "SELL"
  THEN [t EXCEPT !.profitPercentage = JsonNumber(t.profitPercentage)]
  ELSE t

Stringify(history) ==
  [trades |-> [i \in 1..Len(history.trades) |-> StringifyTrade(history.trades[i])],
   summary |-> history.summary]

\* fs.writeFileSync(tradingHistoryFile, ...): it returns (writeOK), or throws
\* leaving the file as it was, or throws after the file was truncated (torn)
WriteFileSync(history, writeOK, torn) ==
  IF writeOK THEN [file |-> Stringify(history), disk |-> "ledger"]
  ELSE IF torn THEN [file |-> Stringify(history), disk |-> "garbled"]
  ELSE [file |-> file, disk |-> disk]

\* ---------------------------------------------------------------- recordBuyTrade
\* The amounts are passed as numbers (rationals), which parseFloat leaves as
\* they are; txHash is the number of the call.
BuyTrade(tokenAddress, bnbAmount, tokenAmount, gasUsed, clock, txHash) ==
  [id |-> clock, type |-> "BUY", tokenAddress |-> ToLowerCase(tokenAddress),
   bnbAmount |-> bnbAmount, tokenAmount |-> tokenAmount,
   gasUsed |-> gasUsed, timestamp |-> clock, txHash |-> txHash,
   status |-> "HOLDING"]

RecordBuyTrade(tokenAddress, bnbAmount, tokenAmount, gasUsed, readOK, writeOK, torn) ==
  /\ ncalls < MaxCalls
  /\ LET history == GetTradingHistory(readOK)
         clock == now
         buyTrade == BuyTrade(tokenAddress, bnbAmount, tokenAmount, gasUsed,
                              clock, ncalls + 1)
         after == [trades |-> Append(history.trades, buyTrade),
                   summary |-> [history.summary EXCEPT
                                  !.totalTrades = history.summary.totalTrades + 1]]
         tok == ToLowerCase(tokenAddress)
         written == WriteFileSync(after, writeOK, torn)
     IN /\ ncalls' = ncalls + 1
        /\ file' = written.file
        /\ disk' = written.disk
        /\ call' = [op |-> "recordBuyTrade", tokenAddress |-> tokenAddress,
                    tokenAmount |-> tokenAmount, bnb |-> bnbAmount,
                    gasUsed |-> gasUsed, readOK |-> readOK, writeOK |-> writeOK,
                    torn |-> torn, disk |-> disk,
                    history |-> history,
                    ret |-> IF writeOK THEN [isNull |-> FALSE, id |-> buyTrade.id]
                            ELSE NullRet]
        /\ bought' = IF writeOK
                     THEN [bought EXCEPT ![tok] = RAdd(@, tokenAmount)]
                     ELSE bought
        /\ spent' = IF writeOK
                    THEN [spent EXCEPT ![tok] = RAdd(@, bnbAmount)]
                    ELSE spent
        /\ UNCHANGED now

\* ---------------------------------------------------------------- recordSellTrade
\* mutant: the filter does not look at the token
IsHoldingBuyOfAnyToken(trade, tokenAddress) ==
  /\ trade.type = "BUY"
  /\ trade.status = "HOLDING"

\* the filter of recordSellTrade and getTokenPositionInfo
IsHoldingBuy(trade, tokenAddress) ==
  /\ trade.type = "BUY"
  /\ trade.tokenAddress = ToLowerCase(tokenAddress)
  /\ trade.status = "HOLDING"

\* positions, in ledger order, of the records that pass the filter
HoldingIndexes(trades, tokenAddress) ==
  LET Keep(i) == IsHoldingBuy(trades[i], tokenAddress)
  IN SelectSeq([i \in 1..Len(trades) |-> i], Keep)

\* mutant: the comparator with its operands swapped (newest lot first)
TimestampAfter(a, b) == a.timestamp > b.timestamp

\* the comparator of the sort: new Date(a.timestamp) - new Date(b.timestamp) < 0
TimestampBefore(a, b) == a.timestamp < b.timestamp

\* Array.prototype.sort is stable: i goes after the entries that do not follow it
RECURSIVE InsertSorted(_, _, _)
InsertSorted(sorted, i, trades) ==
  IF sorted = <<>> THEN <<i>>
  ELSE IF TimestampBefore(trades[i], trades[Head(sorted)])
       THEN <<i>> \o sorted
       ELSE <<Head(sorted)>> \o InsertSorted(Tail(sorted), i, trades)

RECURSIVE SortByTimestamp(_, _)
SortByTimestamp(idx, trades) ==
  IF idx = <<>> THEN <<>>
  ELSE InsertSorted(SortByTimestamp(SubSeq(idx, 1, Len(idx) - 1), trades),
                    idx[Len(idx)], trades)

\* buyTrades of recordSellTrade, as positions in history.trades
BuyTradesOf(trades, tokenAddress) ==
  SortByTimestamp(HoldingIndexes(trades, tokenAddress), trades)

\* mutant: the early return is missing
NoBuyRecordUnchecked(buyTrades) == FALSE

\* the early return: buyTrades.length === 0
NoBuyRecord(buyTrades) == buyTrades = <<>>

\* mutant: a fully consumed lot is emptied as well as marked SOLD
ConsumeLotEmptying(buyTrade, tokensFromThisBuy, costFromThisBuy, gasFromThisBuy) ==
  IF RLe(buyTrade.tokenAmount, tokensFromThisBuy)
  THEN [buyTrade EXCEPT !.status = "SOLD", !.tokenAmount = Zero,
                        !.bnbAmount = Zero, !.gasUsed = Zero]
  ELSE [buyTrade EXCEPT !.tokenAmount = RSub(@, tokensFromThisBuy),
                        !.bnbAmount = RSub(@, costFromThisBuy),
                        !.gasUsed = RSub(@, gasFromThisBuy)]

\* mutant: a partly consumed lot keeps its tokenAmount
ConsumeLotKeepsTokens(buyTrade, tokensFromThisBuy, costFromThisBuy, gasFromThisBuy) ==
  IF RLe(buyTrade.tokenAmount, tokensFromThisBuy)
  THEN [buyTrade EXCEPT !.status = "SOLD"]
  ELSE [buyTrade EXCEPT !.bnbAmount = RSub(@, costFromThisBuy),
                        !.gasUsed = RSub(@, gasFromThisBuy)]

\* mutant: a partly consumed lot keeps its bnbAmount
ConsumeLotKeepsCost(buyTrade, tokensFromThisBuy, costFromThisBuy, gasFromThisBuy) ==
  IF RLe(buyTrade.tokenAmount, tokensFromThisBuy)
  THEN [buyTrade EXCEPT !.status = "SOLD"]
  ELSE [buyTrade EXCEPT !.tokenAmount = RSub(@, tokensFromThisBuy),
                        !.gasUsed = RSub(@, gasFromThisBuy)]

\* what one pass of the FIFO loop does to a lot
ConsumeLot(buyTrade, tokensFromThisBuy, costFromThisBuy, gasFromThisBuy) ==
  IF RLe(buyTrade.tokenAmount, tokensFromThisBuy)
  THEN [buyTrade EXCEPT !.status = "SOLD"]
  ELSE [buyTrade EXCEPT !.tokenAmount = RSub(@, tokensFromThisBuy),
                        !.bnbAmount = RSub(@, costFromThisBuy),
                        !.gasUsed = RSub(@, gasFromThisBuy)]

\* mutant: the whole lot is taken whatever is left to sell
TokensFromThisBuyWholeLot(remainingTokensToSell, buyTrade) == buyTrade.tokenAmount

\* mutant: all that is left to sell is taken from the lot, whatever it holds
TokensFromThisBuyAllLeft(remainingTokensToSell, buyTrade) == remainingTokensToSell

\* tokensFromThisBuy of one pass
TokensFromThisBuy(remainingTokensToSell, buyTrade) ==
  RMin(remainingTokensToSell, buyTrade.tokenAmount)

\* mutant: the ratio is taken the wrong way round
CostRatioInverted(tokensFromThisBuy, buyTrade) ==
  RDiv(buyTrade.tokenAmount, tokensFromThisBuy)

\* costRatio of one pass
CostRatio(tokensFromThisBuy, buyTrade) ==
  RDiv(tokensFromThisBuy, buyTrade.tokenAmount)

\* the loop "for (const buyTrade of buyTrades)", from its k-th pass on
RECURSIVE FifoLoop(_, _, _)
FifoLoop(buyTrades, k, acc) ==
  IF k > Len(buyTrades) \/ RLe(acc.remainingTokensToSell, Zero) THEN acc
  ELSE LET i == buyTrades[k]
           buyTrade == acc.trades[i]
           tokensFromThisBuy == TokensFromThisBuy(acc.remainingTokensToSell, buyTrade)
           costRatio == CostRatio(tokensFromThisBuy, buyTrade)
           costFromThisBuy == RMul(buyTrade.bnbAmount, costRatio)
           gasFromThisBuy == RMul(buyTrade.gasUsed, costRatio)
       IN FifoLoop(buyTrades, k + 1,
            [trades |-> [acc.trades EXCEPT ![i] =
                           ConsumeLot(buyTrade, tokensFromThisBuy,
                                      costFromThisBuy, gasFromThisBuy)],
             totalCost |-> RAdd(acc.totalCost, costFromThisBuy),
             totalGasUsed |-> RAdd(acc.totalGasUsed, gasFromThisBuy),
             processedBuyTrades |-> Append(acc.processedBuyTrades,
                                      [id |-> buyTrade.id,
                                       tokensUsed |-> tokensFromThisBuy,
                                       costUsed |-> costFromThisBuy,
                                       gasUsed |-> gasFromThisBuy]),
             remainingTokensToSell |-> RSub(acc.remainingTokensToSell,
                                            tokensFromThisBuy)])

\* history.trades.filter(t => t.type === 'SELL' && t.profit > 0).length
ProfitableTrades(trades) ==
  Cardinality({i \in 1..Len(trades) :
                 trades[i].type = "SELL" /\ RLt(Zero, trades[i].profit)})

\* history.trades.filter(t => t.type === 'SELL').length
TotalSellTrades(trades) ==
  Cardinality({i \in 1..Len(trades) : trades[i].type = "SELL"})

\* mutant: a loss is added to totalLoss with its sign
UpdateSummarySignedLoss(summary, trades, profit) ==
  [totalTrades |-> summary.totalTrades + 1,
   totalProfit |-> IF RLt(Zero, profit) THEN RAdd(summary.totalProfit, profit)
                   ELSE summary.totalProfit,
   totalLoss |-> IF RLt(Zero, profit) THEN summary.totalLoss
                 ELSE RAdd(summary.totalLoss, profit),
   winRate |-> IF TotalSellTrades(trades) > 0
               THEN Percent(R(ProfitableTrades(trades)), R(TotalSellTrades(trades)))
               ELSE Zero]

\* the summary update after the SELL record is pushed
UpdateSummary(summary, trades, profit) ==
  LET profitableTrades == ProfitableTrades(trades)
      totalSellTrades == TotalSellTrades(trades)
  IN [totalTrades |-> summary.totalTrades + 1,
      totalProfit |-> IF RLt(Zero, profit) THEN RAdd(summary.totalProfit, profit)
                      ELSE summary.totalProfit,
      totalLoss |-> IF RLt(Zero, profit) THEN summary.totalLoss
                    ELSE RAdd(summary.totalLoss, RAbs(profit)),
      winRate |-> IF totalSellTrades > 0
                  THEN Percent(R(profitableTrades), R(totalSellTrades))
                  ELSE Zero]

\* the in-memory history and the result, after the loop and the summary update
SellOutcome(history, tokenAddress, tokenAmount, bnbReceived, gasUsed, clock, txHash) ==
  LET buyTrades == BuyTradesOf(history.trades, tokenAddress)
      loop == FifoLoop(buyTrades, 1,
                [trades |-> history.trades, totalCost |-> Zero,
                 totalGasUsed |-> gasUsed, processedBuyTrades |-> <<>>,
                 remainingTokensToSell |-> tokenAmount])
      revenue == bnbReceived
      profit == RSub(revenue, loop.totalCost)
      profitPercentage == Percent(profit, loop.totalCost)
      sellTrade == [id |-> clock, type |-> "SELL",
                    tokenAddress |-> ToLowerCase(tokenAddress),
                    tokenAmount |-> tokenAmount, bnbReceived |-> revenue,
                    gasUsed |-> loop.totalGasUsed, timestamp |-> clock,
                    txHash |-> txHash, totalCost |-> loop.totalCost,
                    profit |-> profit, profitPercentage |-> profitPercentage,
                    buyTradesUsed |-> loop.processedBuyTrades]
      trades == Append(loop.trades, sellTrade)
  IN [history |-> [trades |-> trades,
                   summary |-> UpdateSummary(history.summary, trades, profit)],
      ret |-> [isNull |-> FALSE, sellTradeId |-> sellTrade.id, profit |-> profit,
               profitPercentage |-> profitPercentage,
               totalCost |-> loop.totalCost, revenue |-> revenue]]

RecordSellTrade(tokenAddress, tokenAmount, bnbReceived, gasUsed, readOK, writeOK, torn) ==
  /\ ncalls < MaxCalls
  /\ LET history == GetTradingHistory(readOK)
         clock == now
         found == ~NoBuyRecord(BuyTradesOf(history.trades, tokenAddress))
         out == SellOutcome(history, tokenAddress, tokenAmount, bnbReceived,
                            gasUsed, clock, ncalls + 1)
         written == WriteFileSync(out.history, writeOK, torn)
     IN /\ ncalls' = ncalls + 1
        /\ file' = IF found THEN written.file ELSE file
        /\ disk' = IF found THEN written.disk ELSE disk
        /\ call' = [op |-> "recordSellTrade", tokenAddress |-> tokenAddress,
                    tokenAmount |-> tokenAmount, bnb |-> bnbReceived,
                    gasUsed |-> gasUsed, readOK |-> readOK, writeOK |-> writeOK,
                    torn |-> torn, disk |-> disk,
                    history |-> history,
                    ret |-> IF found /\ writeOK THEN out.ret ELSE NullRet]
        /\ UNCHANGED <<now, bought, spent>>

\* ---------------------------------------------------------------- queries
\* getTokenPositionInfo, read from the file without a read failure
GetTokenPositionInfo(tokenAddress) ==
  LET history == GetTradingHistory(TRUE)
      buyTrades == HoldingIndexes(history.trades, tokenAddress)
      Sum[k \in 0..Len(buyTrades)] ==
        IF k = 0 THEN [tokens |-> Zero, cost |-> Zero]
        ELSE [tokens |-> RAdd(Sum[k - 1].tokens, history.trades[buyTrades[k]].tokenAmount),
              cost |-> RAdd(Sum[k - 1].cost, history.trades[buyTrades[k]].bnbAmount)]
      total == Sum[Len(buyTrades)]
  IN IF Len(buyTrades) = 0 THEN NullRet
     ELSE [isNull |-> FALSE, totalTokens |-> total.tokens, totalCost |-> total.cost,
           avgPrice |-> RDiv(total.cost, total.tokens), trades |-> Len(buyTrades)]

\* ---------------------------------------------------------------- clock
\* a millisecond passes between two calls, while a call is still to come
Tick ==
  /\ now < MaxClock
  /\ ncalls < MaxCalls
  /\ now' = now + 1
  /\ UNCHANGED <<file, disk, ncalls, call, bought, spent>>

\* ---------------------------------------------------------------- specifications
\* the file system works: every read and write of the ledger file succeeds
Next ==
  \/ \E t \in TokenArgs, b \in BnbAmounts, a \in BuyTokenAmounts, g \in GasValues :
       /\ RecordBuyTrade(t, R(b), R(a), R(g), TRUE, TRUE, FALSE)
       /\ UNCHANGED <<routeVars, tradeVars, processVars>>
  \/ \E t \in TokenArgs, a \in SellTokenAmounts, b \in BnbReceivedValues,
        g \in GasValues :
       /\ RecordSellTrade(t, R(a), R(b), R(g), TRUE, TRUE, FALSE)
       /\ UNCHANGED <<routeVars, tradeVars, processVars>>
  \/ Tick /\ UNCHANGED <<routeVars, tradeVars, processVars>>

Spec == Init /\ [][Next]_vars

\* reads and writes of the ledger file may fail
NextIO ==
  \/ \E t \in TokenArgsIO, b \in BnbAmounts, a \in BuyTokenAmounts, g \in GasValues,
        readOK \in BOOLEAN, writeOK \in BOOLEAN :
       /\ RecordBuyTrade(t, R(b), R(a), R(g), readOK, writeOK, FALSE)
       /\ UNCHANGED <<routeVars, tradeVars, processVars>>
  \/ \E t \in TokenArgsIO, a \in SellTokenAmountsIO, b \in BnbReceivedValues,
        g \in GasValues, readOK \in BOOLEAN, writeOK \in BOOLEAN :
       /\ RecordSellTrade(t, R(a), R(b), R(g), readOK, writeOK, FALSE)
       /\ UNCHANGED <<routeVars, tradeVars, processVars>>
  \/ Tick /\ UNCHANGED <<routeVars, tradeVars, processVars>>

SpecIO == Init /\ [][NextIO]_vars

\* ---------------------------------------------------------------- damaged file
\* getTradingHistory called on its own, as getTradingStats and the history
\* command do
LoadLedger(readOK) ==
  /\ call' = [op |-> "getTradingHistory", tokenAddress |-> "", tokenAmount |-> Zero,
              bnb |-> Zero, gasUsed |-> Zero, readOK |-> readOK, writeOK |-> TRUE,
              torn |-> FALSE, disk |-> disk,
              history |-> GetTradingHistory(readOK), ret |-> NullRet]
  /\ UNCHANGED <<file, disk, now, ncalls, bought, spent>>

\* trading-history.json is deleted from outside the program
RemoveFile ==
  /\ disk # "missing"
  /\ disk' = "missing"
  /\ UNCHANGED <<file, now, ncalls, call, bought, spent>>

\* the outcomes of fs.writeFileSync: <<writeOK, torn>>
WriteOutcomes == {<<TRUE, FALSE>>, <<FALSE, FALSE>>, <<FALSE, TRUE>>}

\* reads may fail, writes may fail with or without truncating the file, and
\* the file may disappear
NextFS ==
  \/ \E t \in TokenArgsIO, b \in BnbAmountsFS, a \in BuyTokenAmounts, g \in GasValues,
        readOK \in BOOLEAN, w \in WriteOutcomes :
       /\ RecordBuyTrade(t, R(b), R(a), R(g), readOK, w[1], w[2])
       /\ UNCHANGED <<routeVars, tradeVars, processVars>>
  \/ \E t \in TokenArgsIO, a \in SellTokenAmountsIO, b \in BnbReceivedValues,
        g \in GasValues, readOK \in BOOLEAN, w \in WriteOutcomes :
       /\ RecordSellTrade(t, R(a), R(b), R(g), readOK, w[1], w[2])
       /\ UNCHANGED <<routeVars, tradeVars, processVars>>
  \/ \E readOK \in BOOLEAN : LoadLedger(readOK) /\ UNCHANGED <<routeVars, tradeVars, processVars>>
  \/ RemoveFile /\ UNCHANGED <<routeVars, tradeVars, processVars>>

SpecFS == Init /\ [][NextFS]_vars

\* ---------------------------------------------------------------- getBestRoute
\* getV2Quote and getV3Quote catch every error and resolve with success false;
\* expectedAmount is the number that parseFloat makes of the formatted amount
QuoteOutcomes ==
  {QuoteFailed} \cup {[success |-> TRUE, expectedAmount |-> a] : a \in QuoteAmounts}

\* the outcomes of the candidate quotes when a wrapper compares the routes
RouteOutcomes ==
  {QuoteFailed, [success |-> TRUE, expectedAmount |-> 1],
   [success |-> TRUE, expectedAmount |-> 2]}

\* the entry pushed on quotes for candidate i
QuoteEntry(settled, i) ==
  [version |-> Candidates[i].version,
   expectedAmount |-> settled[i].value.expectedAmount,
   quote |-> [success |-> TRUE, version |-> Candidates[i].version,
              fee |-> Candidates[i].fee,
              expectedAmount |-> settled[i].value.expectedAmount]]

\* status === 'fulfilled' && value.success
Succeeded(settled, i) ==
  settled[i].status = "fulfilled" /\ settled[i].value.success

\* the quotes array: the candidates that succeeded, in the order of the pushes
RECURSIVE PushQuotes(_, _)
PushQuotes(settled, i) ==
  IF i > Len(Candidates) THEN <<>>
  ELSE IF Succeeded(settled, i)
       THEN <<QuoteEntry(settled, i)>> \o PushQuotes(settled, i + 1)
       ELSE PushQuotes(settled, i + 1)

\* mutant: the reduce keeps the smaller amount
BestRouteSmallest(qs) ==
  LET Best[k \in 1..Len(qs)] ==
        IF k = 1 THEN qs[1]
        ELSE IF qs[k].expectedAmount < Best[k - 1].expectedAmount
             THEN qs[k] ELSE Best[k - 1]
  IN Best[Len(qs)]

\* mutant: the reduce moves on to a later quote of the same amount
BestRouteLast(qs) ==
  LET Best[k \in 1..Len(qs)] ==
        IF k = 1 THEN qs[1]
        ELSE IF qs[k].expectedAmount >= Best[k - 1].expectedAmount
             THEN qs[k] ELSE Best[k - 1]
  IN Best[Len(qs)]

\* quotes.reduce((best, current) =>
\*   current.expectedAmount > best.expectedAmount ? current : best)
BestRoute(qs) ==
  LET Best[k \in 1..Len(qs)] ==
        IF k = 1 THEN qs[1]
        ELSE IF qs[k].expectedAmount > Best[k - 1].expectedAmount
             THEN qs[k] ELSE Best[k - 1]
  IN Best[Len(qs)]

\* what getBestRoute returns for the settled candidates; of comparison the
\* improvement string is left out
BestRouteResult(settled) ==
  LET qs == PushQuotes(settled, 1)
  IN IF Len(qs) = 0 THEN [success |-> FALSE, error |-> "no valid quote"]
     ELSE [success |-> TRUE, bestRoute |-> BestRoute(qs).quote, allQuotes |-> qs,
           comparison |-> [totalQuotes |-> Len(qs),
                           bestPrice |-> BestRoute(qs).expectedAmount]]

\* mutant: the selection starts when the first candidate has settled
SomeSettled(q) == \E i \in DOMAIN q : q[i].status = "fulfilled"

\* await Promise.allSettled([...])
AllSettled(q) == \A i \in DOMAIN q : q[i].status = "fulfilled"

\* the call: the four quote functions are started one after the other
GetBestRoute(isBuy) ==
  /\ route.pc # "waiting"
  /\ quotes' = [i \in DOMAIN Candidates |-> [status |-> "pending", value |-> QuoteFailed]]
  /\ route' = [pc |-> "waiting", isBuy |-> isBuy, result |-> NoRoute]

\* candidate i settles, with a quote or with success false
QuoteSettles(i, value) ==
  /\ quotes[i].status = "pending"
  /\ quotes' = [quotes EXCEPT ![i] = [status |-> "fulfilled", value |-> value]]
  /\ UNCHANGED route

\* the code after the await, up to the return
SelectBestRoute ==
  /\ route.pc = "waiting"
  /\ AllSettled(quotes)
  /\ route' = [route EXCEPT !.pc = "returned", !.result = BestRouteResult(quotes)]
  /\ UNCHANGED quotes

NextRoute ==
  \/ \E isBuy \in BOOLEAN : GetBestRoute(isBuy) /\ UNCHANGED <<ledgerVars, tradeVars, processVars>>
  \/ \E i \in DOMAIN Candidates, value \in QuoteOutcomes :
       QuoteSettles(i, value) /\ UNCHANGED <<ledgerVars, tradeVars, processVars>>
  \/ SelectBestRoute /\ UNCHANGED <<ledgerVars, tradeVars, processVars>>

SpecRoute == Init /\ [][NextRoute]_vars

\* ---------------------------------------------------------------- buy and sell flows
IsBuy(method) == method \in {"smartBuy", "smartBuyV3"}
IsV3(method) == method \in {"smartBuyV3", "smartSellV3"}
IsOptimal(entry) == entry \in {"smartBuyOptimal", "smartSellOptimal"}

\* the router that quotes and receives the swap: this.router in smartBuy and
\* smartSell, this.routerV3 in smartBuyV3 and smartSellV3
SwapRouter(method) == IF IsV3(method) THEN "v3" ELSE RouterVersion

\* parseFloat of the text of an amount
ParseFloat(text) ==
  CASE text = "1" -> R(1)
    [] text = "0" -> Zero
    [] text = "-1" -> R(-1)
    [] text = "Infinity" -> Infinity
    [] OTHER -> NaN

\* the amount passes the check isNaN(amountNum) || amountNum <= 0
ValidAmount(amount) == ~(amount = NaN \/ RLe(amount, Zero))

\* formatDecimalSafe, then ethers.parseEther: a value that is not finite is
\* formatted as '0'
ParseEtherSafe(value) == IF IsFinite(value) THEN value ELSE Zero

\* parseTokenAmountSafe of a valid amount, in whole tokens
ParseTokenAmountSafe(amount) == amount[1] \div amount[2]

\* BigInt(x) throws a RangeError when x is not an integer
BigIntThrows(x) == x[2] # 1

\* the quotient of two BigInts is cut towards zero
BigIntDiv(a, b) == IF a >= 0 THEN a \div b ELSE -((-a) \div b)

\* amounts[1] * BigInt(100 - this.settings.slippage) / BigInt(100)
AmountOutMin(expected, slippage) ==
  BigIntDiv(expected * RSub(R(100), slippage)[1], 100)

\* the step failed and the function returns success false
Fail(step) ==
  [flow EXCEPT !.pc = "done", !.result = "failure",
               !.steps = Append(@, step), !.failed = Append(@, step)]

\* the step was done and the function goes on at pc
Done(step, pc) == [flow EXCEPT !.pc = pc, !.steps = Append(@, step)]

\* a call of one of the six functions; the buys and the two optimal wrappers
\* check the amount first, smartSell and smartSellV3 do not
Invoke(entry, tokenAddress, amount) ==
  /\ flow.pc \in {"idle", "done"}
  /\ flow.n < MaxTrades
  /\ LET checked == IsBuy(entry) \/ IsOptimal(entry)
         started == [IdleFlow EXCEPT !.n = flow.n + 1, !.entry = entry,
                       !.method = IF IsOptimal(entry) THEN "none" ELSE entry,
                       !.tokenAddress = tokenAddress, !.amount = amount,
                       !.fee = IF IsV3(entry) THEN 2500 ELSE 0,
                       !.tokensBefore = tradedTokens]
     IN flow' = IF ~checked THEN [started EXCEPT !.pc = "validateToken"]
                ELSE IF ValidAmount(amount)
                THEN [started EXCEPT !.pc = "validateToken",
                                     !.steps = <<"validateAmount">>]
                ELSE [started EXCEPT !.pc = "done", !.result = "failure",
                                     !.steps = <<"validateAmount">>,
                                     !.failed = <<"validateAmount">>]
  /\ UNCHANGED <<chain, tradedTokens, settings, ledgerVars>>

\* mutant: the wrapper goes on to the swap without comparing the routes
AfterValidTokenNoRoute(method) == "validatePath"

\* after isValidTokenAddress: the wrappers call getBestRoute, the four flows
\* validate the trading path; smartSellWithProfit reads symbol and decimals
AfterValidToken(method) ==
  IF method = "none" THEN "bestRoute"
  ELSE IF method = "smartSellWithProfit" THEN "symbol"
  ELSE "validatePath"

\* await this.isValidTokenAddress(tokenAddress)
ValidateToken(isValid) ==
  /\ flow.pc = "validateToken"
  /\ flow' = IF isValid THEN Done("validateToken", AfterValidToken(flow.method))
             ELSE Fail("validateToken")
  /\ UNCHANGED <<chain, tradedTokens, settings, ledgerVars>>

\* the flow that a wrapper calls for the best route
RoutedMethod(entry, bestRoute) ==
  IF entry = "smartBuyOptimal"
  THEN IF bestRoute.version = "v2" THEN "smartBuy" ELSE "smartBuyV3"
  ELSE IF bestRoute.version = "v2" THEN "smartSell" ELSE "smartSellV3"

\* await this.getBestRoute(...) in a wrapper, then the call of the flow, which
\* checks the amount again
BestRouteStep(outcomes) ==
  /\ flow.pc = "bestRoute"
  /\ LET settled == [i \in DOMAIN Candidates |->
                       [status |-> "fulfilled", value |-> outcomes[i]]]
         routeResult == BestRouteResult(settled)
     IN flow' = IF ~routeResult.success THEN Fail("getBestRoute")
                ELSE [flow EXCEPT
                        !.pc = "validateToken",
                        !.method = RoutedMethod(flow.entry, routeResult.bestRoute),
                        !.fee = routeResult.bestRoute.fee,
                        !.steps = IF IsBuy(RoutedMethod(flow.entry, routeResult.bestRoute))
                                  THEN @ \o <<"getBestRoute", "validateAmount">>
                                  ELSE Append(@, "getBestRoute")]
  /\ UNCHANGED <<chain, tradedTokens, settings, ledgerVars>>

\* await this.validateTradingPath(...), then symbol() and decimals()
ValidatePath(ok) ==
  /\ flow.pc = "validatePath"
  /\ flow' = IF ~ok THEN Fail("validatePath")
             ELSE Done("validatePath", IF IsBuy(flow.method) THEN "quote" ELSE "balance")
  /\ UNCHANGED <<chain, tradedTokens, settings, ledgerVars>>

\* getTokenBalance: the balance of the wallet, '0' when the call fails
GetTokenBalance(readOK) == IF readOK THEN chain.balance ELSE 0

\* the sells: balanceNum < sellAmount, then parseTokenAmountSafe
CheckBalance(readOK) ==
  /\ flow.pc = "balance"
  /\ flow' = IF RLt(R(GetTokenBalance(readOK)), flow.amount)
             THEN Fail("getTokenBalance")
             ELSE IF ~ValidAmount(flow.amount)
             THEN [Fail("parseTokenAmount") EXCEPT
                     !.steps = flow.steps \o <<"getTokenBalance", "parseTokenAmount">>]
             ELSE Done("getTokenBalance", "allowance")
  /\ UNCHANGED <<chain, tradedTokens, settings, ledgerVars>>

\* the sells: tokenContract.allowance(this.wallet.address, this.routerAddress)
CheckAllowance(ok) ==
  /\ flow.pc = "allowance"
  /\ flow' = IF ~ok THEN Fail("allowance")
             ELSE Done("allowance",
                       IF chain.allowance[RouterAddress]
                            < ParseTokenAmountSafe(flow.amount)
                       THEN "approve" ELSE "quote")
  /\ UNCHANGED <<chain, tradedTokens, settings, ledgerVars>>

\* tokenContract.approve(this.routerAddress, ethers.MaxUint256) and its wait
Approve(ok) ==
  /\ flow.pc = "approve"
  /\ flow' = IF ok THEN Done("approve", "quote") ELSE Fail("approve")
  /\ chain' = IF ok THEN [chain EXCEPT !.allowance[RouterAddress] = MaxUint256]
              ELSE chain
  /\ UNCHANGED <<tradedTokens, settings, ledgerVars>>

\* getAmountsOut or quoteExactInputSingle of the router of the flow, then the
\* minimum output; the router reverts when the amountIn of a buy is 0
Quote(ok, expected) ==
  /\ flow.pc = "quote"
  /\ (IsBuy(flow.method) /\ ParseEtherSafe(flow.amount) = Zero) => ~ok
  /\ flow' = IF ~ok THEN Fail("quote")
             ELSE IF BigIntThrows(RSub(R(100), settings.slippage))
             THEN [Fail("computeMinOutput") EXCEPT
                     !.steps = flow.steps \o <<"quote", "computeMinOutput">>,
                     !.expected = expected, !.slippage = settings.slippage]
             ELSE [flow EXCEPT
                     !.pc = "submit",
                     !.steps = @ \o <<"quote", "computeMinOutput">>,
                     !.expected = expected, !.slippage = settings.slippage,
                     !.amountOutMin = AmountOutMin(expected, settings.slippage)]
  /\ UNCHANGED <<chain, tradedTokens, settings, ledgerVars>>

\* the swap call of the router: it throws, or the transaction is sent
SubmitSwap(ok) ==
  /\ flow.pc = "submit"
  /\ flow' = IF ~ok THEN Fail("swap")
             ELSE [Done("swap", "receipt") EXCEPT
                     !.swapRouter = SwapRouter(flow.method),
                     !.allowanceAtSubmit = chain.allowance[SwapRouter(flow.method)]]
  /\ UNCHANGED <<chain, tradedTokens, settings, ledgerVars>>

\* the token contract lets the swap through: a sell needs the balance and the
\* allowance of the router that pulls the tokens
CanSucceed ==
  IF IsBuy(flow.method) THEN chain.balance + flow.expected <= MaxBalance
  ELSE /\ chain.allowance[flow.swapRouter] >= ParseTokenAmountSafe(flow.amount)
       /\ chain.balance >= ParseTokenAmountSafe(flow.amount)

\* mutant: a receipt of any status counts as a success
ReceiptAnyStatus(status) == TRUE

\* receipt.status === 1
ReceiptOK(status) == status = 1

\* await tx.wait(): the receipt of the swap
Receipt(status) ==
  /\ flow.pc = "receipt"
  /\ status = 1 => CanSucceed
  /\ flow' = IF ReceiptOK(status)
             THEN [Done("receipt", IF IsBuy(flow.method) THEN "settleBuy" ELSE "remain")
                     EXCEPT !.receipt = status]
             ELSE [Fail("receipt") EXCEPT !.receipt = status]
  /\ chain' = IF status # 1 THEN chain
              ELSE IF IsBuy(flow.method)
              THEN [chain EXCEPT !.balance = @ + flow.expected]
              ELSE [chain EXCEPT !.balance = @ - ParseTokenAmountSafe(flow.amount)]
  /\ UNCHANGED <<tradedTokens, settings, ledgerVars>>

\* getTradedTokens: the list of the file, [] when it cannot be read
GetTradedTokens(readOK) == IF readOK THEN tradedTokens ELSE {}

\* fs.writeFileSync(tradedTokensFile, ...) with the outcome w of WriteOutcomes
WriteTradedTokens(tokens, w) ==
  IF w[1] THEN tokens ELSE IF w[2] THEN {} ELSE tradedTokens

AddTradedToken(tokenAddress, readOK, w) ==
  LET tokens == GetTradedTokens(readOK)
      normalizedAddress == ToLowerCase(tokenAddress)
  IN IF normalizedAddress \notin tokens
     THEN WriteTradedTokens(tokens \cup {normalizedAddress}, w)
     ELSE tradedTokens

RemoveTradedToken(tokenAddress, readOK, w) ==
  LET tokens == GetTradedTokens(readOK)
      normalizedAddress == ToLowerCase(tokenAddress)
  IN IF normalizedAddress \in tokens
     THEN WriteTradedTokens(tokens \ {normalizedAddress}, w)
     ELSE tradedTokens

\* a buy after receipt.status === 1: addTradedToken, then recordBuyTrade
SettleBuy(tokensReadOK, tw, gasUsed, readOK, w) ==
  /\ flow.pc = "settleBuy"
  /\ tradedTokens' = AddTradedToken(flow.tokenAddress, tokensReadOK, tw)
  /\ RecordBuyTrade(flow.tokenAddress, flow.amount, R(flow.expected),
                    R(gasUsed), readOK, w[1], w[2])
  /\ flow' = [flow EXCEPT
                !.pc = "notify",
                !.steps = @ \o <<"addTradedToken", "recordBuyTrade">>,
                !.failed = @
                  \o (IF ToLowerCase(flow.tokenAddress) \in tradedTokens'
                      THEN <<>> ELSE <<"addTradedToken">>)
                  \o (IF call'.ret.isNull THEN <<"recordBuyTrade">> ELSE <<>>)]
  /\ UNCHANGED <<chain, settings>>

\* a sell after receipt.status === 1: the balance that remains, and
\* removeTradedToken when it is 0
CheckRemain(balanceReadOK, tokensReadOK, tw) ==
  /\ flow.pc = "remain"
  /\ LET remain == GetTokenBalance(balanceReadOK)
     IN /\ tradedTokens' = IF remain = 0
                           THEN RemoveTradedToken(flow.tokenAddress, tokensReadOK, tw)
                           ELSE tradedTokens
        /\ flow' = [flow EXCEPT
                      !.pc = "settleSell",
                      !.steps = IF remain = 0
                                THEN @ \o <<"getTokenBalance", "removeTradedToken">>
                                ELSE Append(@, "getTokenBalance"),
                      !.failed = @
                        \o (IF balanceReadOK THEN <<>> ELSE <<"getTokenBalance">>)
                        \o (IF remain = 0
                               /\ ToLowerCase(flow.tokenAddress)
                                    \in (tradedTokens \cap tradedTokens')
                            THEN <<"removeTradedToken">> ELSE <<>>)]
  /\ UNCHANGED <<chain, settings, ledgerVars>>

\* a sell: getTokenPrice (smartSell only), then recordSellTrade
SettleSell(priceOK, gasUsed, readOK, w) ==
  /\ flow.pc = "settleSell"
  /\ RecordSellTrade(flow.tokenAddress, flow.amount, R(flow.expected),
                     R(gasUsed), readOK, w[1], w[2])
  /\ flow' = [flow EXCEPT
                !.pc = "notify",
                !.steps = IF flow.method = "smartSell"
                          THEN @ \o <<"getTokenPrice", "recordSellTrade">>
                          ELSE Append(@, "recordSellTrade"),
                !.failed = @
                  \o (IF flow.method = "smartSell" /\ ~priceOK
                      THEN <<"getTokenPrice">> ELSE <<>>)
                  \o (IF call'.ret.isNull THEN <<"recordSellTrade">> ELSE <<>>)]
  /\ UNCHANGED <<chain, tradedTokens, settings>>

\* mutant: a trade whose notification failed is reported as failed
SettledResultOfTweet(tweet) == IF tweet = "failed" THEN "failure" ELSE "success"

\* the return after the notification: success true
SettledResult(tweet) == "success"

\* the notification: sendTweet posts, fails or is disabled; the buys do not
\* call it when config.ENABLE_TWITTER is off
Notify(tweet) ==
  /\ flow.pc = "notify"
  /\ flow' = [flow EXCEPT
                !.pc = "done", !.result = SettledResult(tweet), !.tweet = tweet,
                !.steps = IF IsBuy(flow.method) /\ tweet = "disabled" THEN @
                          ELSE Append(@, "sendTweet"),
                !.failed = IF tweet = "failed" THEN Append(@, "sendTweet") ELSE @]
  /\ UNCHANGED <<chain, tradedTokens, settings, ledgerVars>>

\* /slippage: a number below 0.1 or above 50 is refused
HandleSlippageSet(slippage) ==
  /\ settings' = IF ~IsFinite(slippage) \/ RLt(slippage, <<1, 10>>)
                    \/ RLt(R(50), slippage)
                 THEN settings
                 ELSE [settings EXCEPT !.slippage = slippage]
  /\ UNCHANGED <<flow, chain, tradedTokens, ledgerVars>>

\* a manager started with a configured slippage, on a wallet that holds none
\* of the token and has approved the V3 router or no router
InitTrade ==
  /\ LedgerInit
  /\ RouteInit
  /\ flow = IdleFlow
  /\ chain \in {[balance |-> 0, allowance |-> [r \in Routers |-> 0]],
                [balance |-> 0, allowance |-> [r \in Routers |->
                                  IF r = "v3" THEN MaxUint256 ELSE 0]]}
  /\ tradedTokens = {}
  /\ settings \in {[slippage |-> DefaultSlippage(d)] : d \in DefaultSlippages}
  /\ ProcessInit

NextTrade ==
  \/ \E entry \in Entries, t \in TradeTokens, amount \in TradeAmounts :
       Invoke(entry, t, R(amount)) /\ UNCHANGED <<routeVars, processVars>>
  \/ \E isValid \in BOOLEAN : ValidateToken(isValid) /\ UNCHANGED <<routeVars, processVars>>
  \/ \E outcomes \in [DOMAIN Candidates -> RouteOutcomes] :
       BestRouteStep(outcomes) /\ UNCHANGED <<routeVars, processVars>>
  \/ \E ok \in BOOLEAN : ValidatePath(ok) /\ UNCHANGED <<routeVars, processVars>>
  \/ \E readOK \in BOOLEAN : CheckBalance(readOK) /\ UNCHANGED <<routeVars, processVars>>
  \/ \E ok \in BOOLEAN : CheckAllowance(ok) /\ UNCHANGED <<routeVars, processVars>>
  \/ \E ok \in BOOLEAN : Approve(ok) /\ UNCHANGED <<routeVars, processVars>>
  \/ \E ok \in BOOLEAN, expected \in SwapQuotes :
       Quote(ok, expected) /\ UNCHANGED <<routeVars, processVars>>
  \/ \E ok \in BOOLEAN : SubmitSwap(ok) /\ UNCHANGED <<routeVars, processVars>>
  \/ \E status \in {0, 1} : Receipt(status) /\ UNCHANGED <<routeVars, processVars>>
  \/ \E tokensReadOK \in BOOLEAN, tw \in WriteOutcomes, g \in GasValues,
        readOK \in BOOLEAN, w \in WriteOutcomes :
       SettleBuy(tokensReadOK, tw, g, readOK, w) /\ UNCHANGED <<routeVars, processVars>>
  \/ \E balanceReadOK \in BOOLEAN, tokensReadOK \in BOOLEAN, tw \in WriteOutcomes :
       CheckRemain(balanceReadOK, tokensReadOK, tw) /\ UNCHANGED <<routeVars, processVars>>
  \/ \E priceOK \in BOOLEAN, g \in GasValues, readOK \in BOOLEAN,
        w \in WriteOutcomes :
       SettleSell(priceOK, g, readOK, w) /\ UNCHANGED <<routeVars, processVars>>
  \/ \E tweet \in {"sent", "failed", "disabled"} :
       Notify(tweet) /\ UNCHANGED <<routeVars, processVars>>
  \/ \E slippage \in SlippageInputs :
       HandleSlippageSet(slippage) /\ UNCHANGED <<routeVars, processVars>>

SpecTrade == InitTrade /\ [][NextTrade]_vars

\* ---------------------------------------------------------------- amounts of the buys
\* the three buys, called with the text of an amount as the bot passes it
BuyEntries == {"smartBuy", "smartBuyV3", "smartBuyOptimal"}
\* texts of amounts: not a number, zero, negative, infinite, one
AmountTexts == {"abc", "0", "-1", "Infinity", "1"}

NextAmount ==
  \/ \E entry \in BuyEntries, t \in TradeTokens, text \in AmountTexts :
       Invoke(entry, t, ParseFloat(text)) /\ UNCHANGED <<routeVars, processVars>>
  \/ \E isValid \in BOOLEAN :
       ValidateToken(isValid) /\ UNCHANGED <<routeVars, processVars>>
  \/ \E outcomes \in [DOMAIN Candidates -> RouteOutcomes] :
       BestRouteStep(outcomes) /\ UNCHANGED <<routeVars, processVars>>
  \/ \E ok \in BOOLEAN : ValidatePath(ok) /\ UNCHANGED <<routeVars, processVars>>
  \/ \E ok \in BOOLEAN, expected \in SwapQuotes :
       Quote(ok, expected) /\ UNCHANGED <<routeVars, processVars>>
  \/ \E ok \in BOOLEAN : SubmitSwap(ok) /\ UNCHANGED <<routeVars, processVars>>
  \/ \E status \in {0, 1} : Receipt(status) /\ UNCHANGED <<routeVars, processVars>>
  \/ \E g \in GasValues, w \in WriteOutcomes :
       SettleBuy(TRUE, <<TRUE, FALSE>>, g, TRUE, w)
         /\ UNCHANGED <<routeVars, processVars>>
  \/ \E tweet \in {"sent", "failed", "disabled"} :
       Notify(tweet) /\ UNCHANGED <<routeVars, processVars>>

SpecAmount == Init /\ [][NextAmount]_vars

\* ---------------------------------------------------------------- concurrent invocations
\* The handlers of the bot are async functions on the one thread of Node: an
\* invocation runs until it reaches an await, and another invocation runs
\* only then.  recordBuyTrade and recordSellTrade are synchronous: their
\* readFileSync, their change of the history and their writeFileSync are
\* three steps with no await between them.
TaskTokens == {"0xA"}
TaskAmounts == {1}
TaskQuotes == {1, 3}

\* mutant: the invocation can be suspended at every step, as if the reads and
\* writes of the ledger file were awaited
AwaitsEverywhere(pc) == TRUE

\* the positions at which an invocation is suspended: await tx.wait(), await
\* getTokenBalance, await getTokenPrice, await sendTweet
Awaits(pc) == pc \in {"receipt", "remain", "getTokenPrice", "sendTweet"}

\* invocation p may take its step at pc: it is the one that runs, or nothing
\* runs and the promise it awaits has settled
MayRun(p, pc) ==
  /\ eventLoop.tasks[p].pc = pc
  /\ eventLoop.running \in {0, p}

\* invocation p goes on as task; it keeps the thread unless it awaits or returns
Continue(p, task) ==
  [running |-> IF Awaits(task.pc) \/ task.pc = "done" THEN 0 ELSE p,
   tasks |-> [eventLoop.tasks EXCEPT ![p] = task]]

\* a call of a buy or a sell, up to its await tx.wait()
CallTrade(p, kind, tokenAddress, amount, expected) ==
  /\ eventLoop.running = 0
  /\ eventLoop.tasks[p].pc = "idle"
  /\ eventLoop' = Continue(p,
       [IdleTask EXCEPT !.pc = "receipt", !.kind = kind,
                        !.tokenAddress = tokenAddress, !.amount = amount,
                        !.expected = expected,
                        !.overlapped = \E q \in DOMAIN eventLoop.tasks :
                           eventLoop.tasks[q].pc \notin {"idle", "done"}])
  /\ UNCHANGED <<ledgerVars, routeVars, tradeVars, bot>>

\* the receipt arrives: the buy goes on to recordBuyTrade without an await,
\* the sell awaits the balance that remains
ReceiptArrives(p, status) ==
  /\ MayRun(p, "receipt")
  /\ eventLoop' = Continue(p,
       [eventLoop.tasks[p] EXCEPT
          !.receipt = status,
          !.pc = IF status # 1 THEN "done"
                 ELSE IF eventLoop.tasks[p].kind = "buy" THEN "readFileSync"
                 ELSE "remain"])
  /\ UNCHANGED <<ledgerVars, routeVars, tradeVars, bot>>

\* a sell: the balance arrives, then the price
SellAwaitSettles(p) ==
  /\ eventLoop.tasks[p].pc \in {"remain", "getTokenPrice"}
  /\ MayRun(p, eventLoop.tasks[p].pc)
  /\ eventLoop' = Continue(p,
       [eventLoop.tasks[p] EXCEPT
          !.pc = IF @ = "remain" THEN "getTokenPrice" ELSE "readFileSync"])
  /\ UNCHANGED <<ledgerVars, routeVars, tradeVars, bot>>

\* const history = this.getTradingHistory()
LoadHistory(p) ==
  /\ MayRun(p, "readFileSync")
  /\ eventLoop' = Continue(p,
       [eventLoop.tasks[p] EXCEPT !.history = GetTradingHistory(TRUE),
                                  !.pc = "writeFileSync"])
  /\ UNCHANGED <<ledgerVars, routeVars, tradeVars, bot>>

\* the change of the loaded history and fs.writeFileSync; the hash of the
\* transaction is the number of the invocation
SaveHistory(p) ==
  /\ MayRun(p, "writeFileSync")
  /\ LET task == eventLoop.tasks[p]
         history == task.history
         buyTrade == BuyTrade(task.tokenAddress, task.amount, task.expected,
                              R(2), now, p)
         bought1 == [trades |-> Append(history.trades, buyTrade),
                     summary |-> [history.summary EXCEPT
                                    !.totalTrades = history.summary.totalTrades + 1]]
         found == ~NoBuyRecord(BuyTradesOf(history.trades, task.tokenAddress))
         out == SellOutcome(history, task.tokenAddress, task.amount,
                            task.expected, R(2), now, p)
     IN IF task.kind = "buy"
        THEN /\ file' = WriteFileSync(bought1, TRUE, FALSE).file
             /\ eventLoop' = Continue(p,
                  [task EXCEPT !.pc = "sendTweet",
                               !.ret = [isNull |-> FALSE, id |-> buyTrade.id]])
        ELSE /\ file' = IF found THEN WriteFileSync(out.history, TRUE, FALSE).file
                        ELSE file
             /\ eventLoop' = Continue(p,
                  [task EXCEPT !.pc = "sendTweet",
                               !.ret = IF found THEN out.ret ELSE NullRet])
  /\ UNCHANGED <<disk, now, ncalls, call, bought, spent, routeVars, tradeVars, bot>>

\* the notification was sent or failed: the invocation returns
TweetSettles(p) ==
  /\ MayRun(p, "sendTweet")
  /\ eventLoop' = Continue(p, [eventLoop.tasks[p] EXCEPT !.pc = "done"])
  /\ UNCHANGED <<ledgerVars, routeVars, tradeVars, bot>>

NextLoop ==
  \/ \E p \in DOMAIN eventLoop.tasks, kind \in {"buy", "sell"}, t \in TaskTokens,
        a \in TaskAmounts, e \in TaskQuotes :
       CallTrade(p, kind, t, R(a), R(e))
  \/ \E p \in DOMAIN eventLoop.tasks, status \in {0, 1} : ReceiptArrives(p, status)
  \/ \E p \in DOMAIN eventLoop.tasks : SellAwaitSettles(p)
  \/ \E p \in DOMAIN eventLoop.tasks : LoadHistory(p)
  \/ \E p \in DOMAIN eventLoop.tasks : SaveHistory(p)
  \/ \E p \in DOMAIN eventLoop.tasks : TweetSettles(p)

SpecLoop == Init /\ [][NextLoop]_vars

\* ---------------------------------------------------------------- Telegram bot
\* Every handler is one action, up to its call of the trade manager; the time
\* of the bot is counted in minutes.
\* 5 * 60 * 1000 milliseconds
SessionTimeout == 5
\* the minutes that pass between two updates
MinuteSteps == {5, 6}
\* the texts of a token address: a contract address, something else
BotTokenTexts == {"0xA", "bad"}
\* the texts of an amount: "" when the command has none
BotAmountTexts == {"", "1", "0"}
\* config.DEFAULT_BUY_AMOUNT.toString() and config.DEFAULT_SELL_PERCENTAGE
DefaultBuyAmount == "1"
DefaultSellPercentage == 100
\* the balances the wallet may hold when the bot starts
BotBalances == {0, 3}

\* isAuthorizedUser of the trade manager
IsAuthorizedUser(chatId) == chatId \in AdminChatIds

\* this.isValidAddress(text): ethers.isAddress
IsValidAddress(text) == text = "0xA"

\* isNaN(amount) || parseFloat(amount) <= 0 of the two command handlers
BotAmountOK(text) == ValidAmount(ParseFloat(text))

\* mutant: a session never expires
ExpiredNever(age) == FALSE

\* now - userSession.timestamp > 5 * 60 * 1000
Expired(age) == age > SessionTimeout

\* validation.valid in executeSell: isValidTokenAddress returns true or false,
\* and a boolean has no property valid
ValidationValid(validation) ==
  IF validation \in BOOLEAN THEN FALSE ELSE validation.valid

\* executeBuy: isValidTokenAddress, then handleSmartBuy
ExecuteBuy(isValidToken) ==
  IF isValidToken THEN "smartBuyOptimal" ELSE "invalid token"

\* executeSell: the validation, the balance, then handleSmartSell
ExecuteSell(tokenAmount, validation, balance) ==
  IF ~ValidationValid(validation) THEN "refused"
  ELSE IF balance <= 0 THEN "no balance"
  ELSE IF RLt(R(balance), tokenAmount) THEN "exceeds balance"
  ELSE "smartSellOptimal"

\* the amount executeSellWithBalance sells
SellAmountOfBalance(balance) == RDiv(R(balance * DefaultSellPercentage), R(100))

\* executeSellWithBalance: the balance, then executeSell
ExecuteSellWithBalance(validation, balance, balanceAgain) ==
  IF balance <= 0 THEN "no balance"
  ELSE ExecuteSell(SellAmountOfBalance(balance), validation, balanceAgain)

\* the update that a handler has handled
Update(handler, chat, outcome) ==
  [NoUpdate EXCEPT !.handler = handler, !.chat = chat, !.outcome = outcome]

\* the handler ends with update.outcome: the trade manager is called when the
\* outcome is one of its functions. An update is taken when no trade runs.
Handled(update, sessions, tokenAddress, amount) ==
  /\ flow.pc \in {"idle", "done"}
  /\ bot' = [bot EXCEPT
               !.last = update, !.sessions = sessions,
               !.caller = IF update.outcome \in {"smartBuyOptimal", "smartSellOptimal"}
                          THEN update.chat ELSE @]
  /\ IF update.outcome \in {"smartBuyOptimal", "smartSellOptimal"}
     THEN flow.n < MaxBotTrades /\ Invoke(update.outcome, tokenAddress, amount)
     ELSE UNCHANGED <<tradeVars, ledgerVars>>
  /\ UNCHANGED <<routeVars, eventLoop>>

\* /buy, with or without arguments
HandleBuyCommand(chatId, match, tokenAddress, text, isValidToken) ==
  LET bnbAmount == IF text = "" THEN DefaultBuyAmount ELSE text
      outcome == IF ~match THEN "prompt"
                 ELSE IF ~IsValidAddress(tokenAddress) THEN "invalid address"
                 ELSE IF ~BotAmountOK(bnbAmount) THEN "invalid amount"
                 ELSE ExecuteBuy(isValidToken)
  IN Handled(Update("handleBuyCommand", chatId, outcome),
             IF match THEN bot.sessions
             ELSE [bot.sessions EXCEPT ![chatId] =
                     [state |-> "waiting_buy_token_address", timestamp |-> bot.now]],
             tokenAddress, ParseFloat(bnbAmount))

\* /sell, with or without arguments; the update keeps what executeSell read
HandleSellCommand(chatId, match, tokenAddress, tokenAmount, validation, balanceOK) ==
  LET balance == GetTokenBalance(balanceOK)
      outcome == IF ~match THEN "prompt"
                 ELSE IF ~IsValidAddress(tokenAddress) THEN "invalid address"
                 ELSE IF tokenAmount = ""
                 THEN ExecuteSellWithBalance(validation, balance, balance)
                 ELSE IF ~BotAmountOK(tokenAmount) THEN "invalid amount"
                 ELSE ExecuteSell(ParseFloat(tokenAmount), validation, balance)
      executed == outcome \in {"refused", "no balance", "exceeds balance",
                               "smartSellOptimal"}
  IN Handled(IF executed
             THEN [Update("handleSellCommand", chatId, outcome)
                     EXCEPT !.amount = tokenAmount, !.validToken = validation,
                            !.balance = balance]
             ELSE Update("handleSellCommand", chatId, outcome),
             IF match THEN bot.sessions
             ELSE [bot.sessions EXCEPT ![chatId] =
                     [state |-> "waiting_sell_token_address", timestamp |-> bot.now]],
             tokenAddress,
             IF tokenAmount = "" THEN SellAmountOfBalance(balance)
             ELSE ParseFloat(tokenAmount))

\* a text that is not a command
HandleTextMessage(chatId, text, isValidToken, balanceOK) ==
  LET userSession == bot.sessions[chatId]
      balance == GetTokenBalance(balanceOK)
      waiting == userSession.state \in {"waiting_buy_token_address",
                                         "waiting_sell_token_address"}
      expired == userSession.state # "none"
                   /\ Expired(bot.now - userSession.timestamp)
      outcome ==
        IF expired THEN "timeout"
        ELSE IF userSession.state = "waiting_buy_token_address"
        THEN IF IsValidAddress(text) THEN ExecuteBuy(isValidToken)
             ELSE "invalid address"
        ELSE IF userSession.state = "waiting_sell_token_address"
        THEN IF IsValidAddress(text)
             THEN ExecuteSellWithBalance(isValidToken, balance, balance)
             ELSE "invalid address"
        ELSE IF IsValidAddress(text) THEN "price" ELSE "menu"
  IN Handled([Update("handleTextMessage", chatId, outcome)
                EXCEPT !.session = userSession.state],
             IF expired \/ waiting
             THEN [bot.sessions EXCEPT ![chatId] = NoSession]
             ELSE IF outcome = "price"
             THEN [bot.sessions EXCEPT ![chatId] =
                     [state |-> "token_price_shown", timestamp |-> bot.now]]
             ELSE bot.sessions,
             text,
             IF userSession.state = "waiting_buy_token_address"
             THEN ParseFloat(DefaultBuyAmount)
             ELSE SellAmountOfBalance(balance))

\* the callback data of the quick-buy and quick-sell buttons: the address
\* written with 0x or without
CallbackData == {"quick_buy_0x", "quick_sell_0x", "quick_buy_", "quick_sell_"}

\* a press of a button: data that starts with quick_buy_0x or quick_sell_0x is
\* answered with the command to type, other quick_buy_ and quick_sell_ data
\* go to executeBuy and executeSellWithBalance
HandleCallbackQuery(chatId, data, tokenAddress, isValidToken, balanceOK) ==
  LET balance == GetTokenBalance(balanceOK)
      outcome ==
        IF data \in {"quick_buy_0x", "quick_sell_0x"} THEN "prompt"
        ELSE IF ~IsValidAddress(tokenAddress) THEN "invalid address"
        ELSE IF data = "quick_buy_" THEN ExecuteBuy(isValidToken)
        ELSE ExecuteSellWithBalance(isValidToken, balance, balance)
  IN Handled(Update("handleCallbackQuery", chatId, outcome), bot.sessions,
             tokenAddress,
             IF data = "quick_buy_" THEN ParseFloat(DefaultBuyAmount)
             ELSE SellAmountOfBalance(balance))

\* minutes pass
BotTick(minutes) ==
  /\ bot.now + minutes <= MaxMinutes
  /\ bot' = [bot EXCEPT !.now = @ + minutes]
  /\ UNCHANGED <<ledgerVars, routeVars, tradeVars, eventLoop>>

\* the bot starts on a wallet that holds the token or not
InitBot ==
  /\ LedgerInit
  /\ RouteInit
  /\ ProcessInit
  /\ flow = IdleFlow
  /\ chain \in {[balance |-> b, allowance |-> [r \in Routers |-> 0]] :
                  b \in BotBalances}
  /\ tradedTokens = {}
  /\ settings = [slippage |-> DefaultSlippage(NaN)]

\* the updates of the bot, and the steps of the smartBuyOptimal they start; no
\* update reaches smartSellOptimal
NextBot ==
  \/ \E c \in Chats, match \in BOOLEAN, t \in BotTokenTexts, a \in BotAmountTexts,
        isValidToken \in BOOLEAN :
       HandleBuyCommand(c, match, t, a, isValidToken)
  \/ \E c \in Chats, match \in BOOLEAN, t \in BotTokenTexts, a \in BotAmountTexts,
        validation \in BOOLEAN :
       HandleSellCommand(c, match, t, a, validation, TRUE)
  \/ \E c \in Chats, t \in BotTokenTexts, isValidToken \in BOOLEAN :
       HandleTextMessage(c, t, isValidToken, TRUE)
  \/ \E c \in Chats, data \in CallbackData, t \in BotTokenTexts,
        isValidToken \in BOOLEAN :
       HandleCallbackQuery(c, data, t, isValidToken, TRUE)
  \/ \E minutes \in MinuteSteps : BotTick(minutes)
  \/ ValidateToken(TRUE) /\ UNCHANGED <<routeVars, processVars>>
  \/ BestRouteStep([i \in DOMAIN Candidates |-> [success |-> TRUE, expectedAmount |-> 1]])
       /\ UNCHANGED <<routeVars, processVars>>
  \/ ValidatePath(TRUE) /\ UNCHANGED <<routeVars, processVars>>
  \/ Quote(TRUE, 1) /\ UNCHANGED <<routeVars, processVars>>
  \/ SubmitSwap(TRUE) /\ UNCHANGED <<routeVars, processVars>>
  \/ \E status \in {0, 1} : Receipt(status) /\ UNCHANGED <<routeVars, processVars>>
  \/ \E g \in GasValues :
       SettleBuy(TRUE, <<TRUE, FALSE>>, g, TRUE, <<TRUE, FALSE>>)
         /\ UNCHANGED <<routeVars, processVars>>
  \/ Notify("sent") /\ UNCHANGED <<routeVars, processVars>>

SpecBot == InitBot /\ [][NextBot]_vars

\* ---------------------------------------------------------------- smartSellWithProfit
\* the balances of the wallet when smartSellWithProfit is called
ProfitBalances == {1, 3}

\* Promise.all([tokenContract.symbol(), tokenContract.decimals()])
SymbolAndDecimals(ok) ==
  /\ flow.pc = "symbol"
  /\ flow' = IF ok THEN Done("symbol", "balance") ELSE Fail("symbol")
  /\ UNCHANGED <<chain, tradedTokens, settings, ledgerVars>>

\* value.find is a function: value is an array, not the object
\* {trades, summary} that getTradingHistory answers
HasFind(value) == "trades" \notin DOMAIN value

\* this.getTradingHistory().find(record => record.txHash === buyTxHash): the
\* call of a property that is not a function throws a TypeError, which the
\* catch of smartSellWithProfit turns into success false; otherwise the
\* profit is computed, addTradingRecord is called and the tweet is sent
FindBuyRecord(readOK) ==
  /\ flow.pc = "settleSell"
  /\ flow.method = "smartSellWithProfit"
  /\ flow' = IF HasFind(GetTradingHistory(readOK))
             THEN Done("addTradingRecord", "notify")
             ELSE Fail("getTradingHistory().find")
  /\ UNCHANGED <<chain, tradedTokens, settings, ledgerVars>>

\* a manager with the slippage of the constructor, on a wallet that holds tokens
InitProfit ==
  /\ LedgerInit
  /\ RouteInit
  /\ ProcessInit
  /\ flow = IdleFlow
  /\ chain \in {[balance |-> b, allowance |-> [r \in Routers |-> a]] :
                  b \in ProfitBalances, a \in {0, MaxUint256}}
  /\ tradedTokens \in {{}, {"0xa"}}
  /\ settings = [slippage |-> DefaultSlippage(NaN)]

NextProfit ==
  \/ \E t \in TradeTokens, amount \in TradeAmounts :
       Invoke("smartSellWithProfit", t, R(amount))
         /\ UNCHANGED <<routeVars, processVars>>
  \/ \E isValid \in BOOLEAN :
       ValidateToken(isValid) /\ UNCHANGED <<routeVars, processVars>>
  \/ \E ok \in BOOLEAN : SymbolAndDecimals(ok) /\ UNCHANGED <<routeVars, processVars>>
  \/ \E readOK \in BOOLEAN : CheckBalance(readOK) /\ UNCHANGED <<routeVars, processVars>>
  \/ \E ok \in BOOLEAN : CheckAllowance(ok) /\ UNCHANGED <<routeVars, processVars>>
  \/ \E ok \in BOOLEAN : Approve(ok) /\ UNCHANGED <<routeVars, processVars>>
  \/ \E ok \in BOOLEAN, expected \in SwapQuotes :
       Quote(ok, expected) /\ UNCHANGED <<routeVars, processVars>>
  \/ \E ok \in BOOLEAN : SubmitSwap(ok) /\ UNCHANGED <<routeVars, processVars>>
  \/ \E status \in {0, 1} : Receipt(status) /\ UNCHANGED <<routeVars, processVars>>
  \/ \E balanceReadOK \in BOOLEAN, tokensReadOK \in BOOLEAN, tw \in WriteOutcomes :
       CheckRemain(balanceReadOK, tokensReadOK, tw)
         /\ UNCHANGED <<routeVars, processVars>>
  \/ \E readOK \in BOOLEAN : FindBuyRecord(readOK) /\ UNCHANGED <<routeVars, processVars>>

SpecProfit == InitProfit /\ [][NextProfit]_vars

\* ---------------------------------------------------------------- claims
\* the last call was a recordSellTrade that wrote a SELL record
SellWritten == call.op = "recordSellTrade" /\ ~call.ret.isNull

\* the ledger the last call loaded, and the SELL record it appended
PreTrades == call.history.trades
SellRecord == file.trades[Len(file.trades)]

\* the positions of the token's HOLDING lots in a ledger
LotsOf(trades, tokenAddress) ==
  {i \in 1..Len(trades) : /\ trades[i].type = "BUY"
                          /\ trades[i].tokenAddress = ToLowerCase(tokenAddress)
                          /\ trades[i].status = "HOLDING"}

\* lot i comes before lot j: older timestamp, or the same and written first
ComesBefore(trades, i, j) ==
  \/ trades[i].timestamp < trades[j].timestamp
  \/ trades[i].timestamp = trades[j].timestamp /\ i < j

\* the sums of tokensUsed and of costUsed over a sequence of fragments
RECURSIVE SumTokensUsed(_)
SumTokensUsed(used) ==
  IF used = <<>> THEN Zero
  ELSE RAdd(Head(used).tokensUsed, SumTokensUsed(Tail(used)))

RECURSIVE SumCostUsed(_)
SumCostUsed(used) ==
  IF used = <<>> THEN Zero
  ELSE RAdd(Head(used).costUsed, SumCostUsed(Tail(used)))

\* C1: a sell consumes the token's HOLDING lots oldest timestamp first: a lot
\* is changed by a sell only if every lot with an older timestamp ends SOLD,
\* and a sell no larger than the oldest lot changes no other lot.
C1_FifoOrder ==
  SellWritten =>
    LET lots == LotsOf(PreTrades, call.tokenAddress)
    IN /\ \A j \in lots :
            file.trades[j] # PreTrades[j] =>
              \A i \in lots :
                PreTrades[i].timestamp < PreTrades[j].timestamp =>
                  file.trades[i].status = "SOLD"
       /\ \A i \in lots :
            (/\ \A j \in lots \ {i} : ComesBefore(PreTrades, i, j)
             /\ RLe(call.tokenAmount, PreTrades[i].tokenAmount)) =>
              \A j \in lots \ {i} : file.trades[j] = PreTrades[j]

\* a sell went through the oldest lot and stopped inside a lot bought later
C1_Witness ==
  /\ SellWritten
  /\ \E i, j \in LotsOf(PreTrades, call.tokenAddress) :
       /\ PreTrades[i].timestamp < PreTrades[j].timestamp
       /\ file.trades[i].status = "SOLD"
       /\ file.trades[j].status = "HOLDING"
       /\ file.trades[j] # PreTrades[j]

\* the ledger of the README's profit test before its first sell, and that sell
ExampleHistory ==
  [trades |-> << BuyTrade("0xA", <<1, 10>>, R(100), R(21000), 1, 1),
                 BuyTrade("0xA", <<1, 5>>, <<6667, 100>>, R(21000), 2, 2) >>,
   summary |-> [EmptyLedger.summary EXCEPT !.totalTrades = 2]]

ExampleSell == SellOutcome(ExampleHistory, "0xA", R(50), <<7, 50>>, R(25000), 3, 3)

\* C2: in the SELL record a sell writes, the k-th fragment takes
\* min(quantity still to sell, lot.tokenAmount) tokens of the k-th lot in FIFO
\* order at the cost lot.bnbAmount * tokensUsed / lot.tokenAmount; the returned
\* totalCost is the sum of the fragments' costs, revenue is bnbReceived,
\* profit = revenue - totalCost and profitPercentage = profit / totalCost * 100;
\* buys 0.1 -> 100 and 0.2 -> 66.67 then a sell of 50 for 0.14 give totalCost
\* 0.05, profit 0.09 and 180%.
C2_CostAndProfit ==
  /\ SellWritten =>
       LET order == BuyTradesOf(PreTrades, call.tokenAddress)
           used == SellRecord.buyTradesUsed
           StillToSell(k) ==
             RSub(call.tokenAmount, SumTokensUsed(SubSeq(used, 1, k - 1)))
       IN /\ Len(used) <= Len(order)
          /\ \A k \in 1..Len(used) :
               LET lot == PreTrades[order[k]]
               IN /\ used[k].tokensUsed = RMin(StillToSell(k), lot.tokenAmount)
                  /\ used[k].costUsed =
                       RDiv(RMul(lot.bnbAmount, used[k].tokensUsed), lot.tokenAmount)
          /\ call.ret.totalCost = SumCostUsed(used)
          /\ call.ret.revenue = call.bnb
          /\ call.ret.profit = RSub(call.bnb, call.ret.totalCost)
          /\ call.ret.profitPercentage =
               (IF call.ret.totalCost = Zero
                THEN RDiv(call.ret.profit, Zero)
                ELSE RDiv(RMul(call.ret.profit, R(100)), call.ret.totalCost))
  /\ ExampleSell.ret.totalCost = <<1, 20>>
  /\ ExampleSell.ret.profit = <<9, 100>>
  /\ ExampleSell.ret.profitPercentage = R(180)
  /\ Len(ExampleSell.history.trades[3].buyTradesUsed) = 1

\* a sell took a part of one lot and all or part of another, at a cost that is
\* not a whole number
C2_Witness ==
  /\ SellWritten
  /\ Len(SellRecord.buyTradesUsed) = 2
  /\ \E k \in 1..2 : SellRecord.buyTradesUsed[k].costUsed[2] > 1
  /\ RLt(Zero, call.ret.profit)

\* C3: a recordSellTrade for a token without a HOLDING BUY record returns null
\* and leaves the ledger file, records and summary, as it was.
C3_NoBuyRecordSell ==
  (call.op = "recordSellTrade" /\ LotsOf(PreTrades, call.tokenAddress) = {}) =>
    /\ call.ret.isNull
    /\ file = call.history

\* a sell of a token whose only lot is already SOLD, in a ledger with records
C3_Witness ==
  /\ call.op = "recordSellTrade"
  /\ LotsOf(PreTrades, call.tokenAddress) = {}
  /\ \E i \in 1..Len(PreTrades) :
       /\ PreTrades[i].type = "BUY"
       /\ PreTrades[i].tokenAddress = ToLowerCase(call.tokenAddress)
       /\ PreTrades[i].status = "SOLD"
  /\ file.summary.totalTrades = 2

RECURSIVE TokensSold(_, _, _)
TokensSold(trades, tok, n) ==
  IF n = 0 THEN Zero
  ELSE IF trades[n].type = "SELL" /\ trades[n].tokenAddress = tok
       THEN RAdd(TokensSold(trades, tok, n - 1), SumTokensUsed(trades[n].buyTradesUsed))
       ELSE TokensSold(trades, tok, n - 1)

RECURSIVE CostSold(_, _, _)
CostSold(trades, tok, n) ==
  IF n = 0 THEN Zero
  ELSE IF trades[n].type = "SELL" /\ trades[n].tokenAddress = tok
       THEN RAdd(CostSold(trades, tok, n - 1), SumCostUsed(trades[n].buyTradesUsed))
       ELSE CostSold(trades, tok, n - 1)

\* C5: getTokenPositionInfo(token) is null exactly when the token has no
\* HOLDING lot, and otherwise its totalTokens is what the token's buys recorded
\* minus the tokensUsed of all fragments of the token's SELL records.
C5_OpenPosition ==
  \A t \in TokenArgs :
    LET info == GetTokenPositionInfo(t)
        tok == ToLowerCase(t)
    IN /\ info.isNull <=> LotsOf(file.trades, t) = {}
       /\ ~info.isNull =>
            info.totalTokens =
              RSub(bought[tok], TokensSold(file.trades, tok, Len(file.trades)))

\* a position is open after a sell took tokens out of it
C5_Witness ==
  \E t \in TokenArgs :
    /\ ~GetTokenPositionInfo(t).isNull
    /\ RLt(Zero, TokensSold(file.trades, ToLowerCase(t), Len(file.trades)))
    /\ GetTokenPositionInfo(t).trades = 1

\* C6: no BUY record ever has a negative tokenAmount, bnbAmount or gasUsed,
\* and a lot of which a sell takes less than it holds stays HOLDING with a
\* tokenAmount strictly smaller than before and not below 0.
C6_LotNeverNegative ==
  /\ \A i \in 1..Len(file.trades) :
       file.trades[i].type = "BUY" =>
         /\ RLe(Zero, file.trades[i].tokenAmount)
         /\ RLe(Zero, file.trades[i].bnbAmount)
         /\ RLe(Zero, file.trades[i].gasUsed)
  /\ SellWritten =>
       LET order == BuyTradesOf(PreTrades, call.tokenAddress)
           used == SellRecord.buyTradesUsed
       IN \A k \in 1..Len(used) :
            RLt(used[k].tokensUsed, PreTrades[order[k]].tokenAmount) =>
              /\ file.trades[order[k]].status = "HOLDING"
              /\ RLt(file.trades[order[k]].tokenAmount, PreTrades[order[k]].tokenAmount)
              /\ RLe(Zero, file.trades[order[k]].tokenAmount)

\* a sell took a part of a lot, after it had emptied an older one
C6_Witness ==
  /\ SellWritten
  /\ Len(SellRecord.buyTradesUsed) = 2
  /\ LET order == BuyTradesOf(PreTrades, call.tokenAddress)
     IN /\ RLt(SellRecord.buyTradesUsed[2].tokensUsed, PreTrades[order[2]].tokenAmount)
        /\ file.trades[order[2]].bnbAmount[2] > 1

\* C7: once the sells have consumed every lot of a token that was bought, the
\* costUsed of all fragments of the token's SELL records add up to the
\* bnbAmount recorded by the token's buys.
C7_CostConservation ==
  \A tok \in StoredTokens :
    (bought[tok] # Zero /\ LotsOf(file.trades, tok) = {}) =>
      CostSold(file.trades, tok, Len(file.trades)) = spent[tok]

\* a position was exhausted by two sells, the first of them partial
C7_Witness ==
  \E tok \in StoredTokens :
    /\ bought[tok] # Zero
    /\ LotsOf(file.trades, tok) = {}
    /\ Cardinality({i \in 1..Len(file.trades) :
                      /\ file.trades[i].type = "SELL"
                      /\ file.trades[i].tokenAddress = tok
                      /\ file.trades[i].totalCost[2] > 1}) = 2

\* the sums of the positive profits, and of the absolute values of the other
\* profits, over the SELL records among the first n records
RECURSIVE SumProfits(_, _)
SumProfits(trades, n) ==
  IF n = 0 THEN Zero
  ELSE IF trades[n].type = "SELL" /\ RLt(Zero, trades[n].profit)
       THEN RAdd(SumProfits(trades, n - 1), trades[n].profit)
       ELSE SumProfits(trades, n - 1)

RECURSIVE SumLosses(_, _)
SumLosses(trades, n) ==
  IF n = 0 THEN Zero
  ELSE IF trades[n].type = "SELL" /\ ~RLt(Zero, trades[n].profit)
       THEN RAdd(SumLosses(trades, n - 1), RSub(Zero, trades[n].profit))
       ELSE SumLosses(trades, n - 1)

\* C8: summary.totalProfit is the sum of the positive profits of the SELL
\* records, summary.totalLoss the sum of the absolute values of the others, and
\* summary.winRate is 100 * (SELL records with profit > 0) / (SELL records),
\* or 0 without a SELL record.
C8_SummaryConsistent ==
  LET trades == file.trades
      sells == {i \in 1..Len(trades) : trades[i].type = "SELL"}
      wins == {i \in sells : RLt(Zero, trades[i].profit)}
  IN /\ file.summary.totalProfit = SumProfits(trades, Len(trades))
     /\ file.summary.totalLoss = SumLosses(trades, Len(trades))
     /\ file.summary.winRate =
          (IF sells = {} THEN Zero
           ELSE RDiv(R(100 * Cardinality(wins)), R(Cardinality(sells))))

\* the ledger holds a SELL record with a profit and one with a loss
C8_Witness ==
  /\ \E i \in 1..Len(file.trades) :
       file.trades[i].type = "SELL" /\ RLt(Zero, file.trades[i].profit)
  /\ \E i \in 1..Len(file.trades) :
       file.trades[i].type = "SELL" /\ RLt(file.trades[i].profit, Zero)
  /\ file.summary.winRate = R(50)

\* C9 as stated: the records of the ledger have pairwise distinct ids.
C9_DistinctIds ==
  \A i, j \in 1..Len(file.trades) :
    i # j => file.trades[i].id # file.trades[j].id

\* C10 as stated: a record of the ledger file is still in it, with its id,
\* type and txHash, after any later call, whatever reads failed.
C10_NeverDeleted ==
  [][\A i \in 1..Len(file.trades) :
       \E j \in 1..Len(file'.trades) :
         /\ file'.trades[j].id = file.trades[i].id
         /\ file'.trades[j].type = file.trades[i].type
         /\ file'.trades[j].txHash = file.trades[i].txHash]_vars

\* C11: getTradingHistory does not throw and answers a ledger file that is
\* missing, cannot be read or is not valid JSON with the empty ledger: no
\* trades and a summary of 0 trades, 0 profit, 0 loss, win rate 0.
C11_FailOpenLoad ==
  (call.op # "none" /\ (~call.readOK \/ call.disk # "ledger"))
    => /\ call.history.trades = <<>>
       /\ call.history.summary = [totalTrades |-> 0, totalProfit |-> Zero,
                                  totalLoss |-> Zero, winRate |-> Zero]

\* getTradingHistory has read a file that a torn write of a ledger with
\* trades left garbled, without a read error
C11_Witness ==
  /\ call.op = "getTradingHistory"
  /\ call.readOK /\ call.disk = "garbled"
  /\ file.trades # <<>>
  /\ call.history = EmptyLedger

\* C12 as stated: a recordBuyTrade or recordSellTrade whose write of the
\* ledger file fails returns null, and the ledger that the file yields
\* (records, lot statuses and amounts, summary) is the one it yielded before
\* the call.
C12_FailedWriteKeepsLedger ==
  [][(ncalls' = ncalls + 1 /\ ~call'.writeOK
        /\ call'.op \in {"recordBuyTrade", "recordSellTrade"})
       => /\ call'.ret.isNull
          /\ GetTradingHistory(TRUE)' = GetTradingHistory(TRUE)]_vars

\* the candidates of the finished call that succeeded
SucceededCandidates == {i \in DOMAIN Candidates : Succeeded(quotes, i)}

\* C13: the bestRoute that getBestRoute returns is a quote of a candidate
\* that succeeded and no candidate that succeeded has a larger expected
\* amount, for buys and for sells alike; allQuotes holds the candidates that
\* succeeded and no other.
C13_BestIsMaximal ==
  (route.pc = "returned" /\ route.result.success)
    => LET res == route.result
       IN /\ \E i \in SucceededCandidates :
               res.bestRoute = QuoteEntry(quotes, i).quote
          /\ \A i \in SucceededCandidates :
               res.bestRoute.expectedAmount >= quotes[i].value.expectedAmount
          /\ Len(res.allQuotes) = Cardinality(SucceededCandidates)
          /\ {res.allQuotes[k] : k \in 1..Len(res.allQuotes)}
               = {QuoteEntry(quotes, i) : i \in SucceededCandidates}

\* the example: V2 quotes 100, V3 at fee 500 quotes 95, V3 at fee 2500 quotes
\* 110, V3 at fee 10000 fails; the best route is V3 at 2500 with 110 and
\* allQuotes has three entries
C13_Witness ==
  /\ route.pc = "returned"
  /\ quotes[1].value = [success |-> TRUE, expectedAmount |-> 100]
  /\ quotes[2].value = [success |-> TRUE, expectedAmount |-> 110]
  /\ quotes[3].value = [success |-> TRUE, expectedAmount |-> 95]
  /\ quotes[4].value = QuoteFailed
  /\ route.result.success
  /\ route.result.bestRoute.version = "v3"
  /\ route.result.bestRoute.fee = 2500
  /\ route.result.bestRoute.expectedAmount = 110
  /\ Len(route.result.allQuotes) = 3

\* C14: getBestRoute starts its four candidate quotes together and returns
\* only when all four have settled; a candidate that fails leaves the others
\* as they are, and the call returns success false exactly when no candidate
\* succeeded.
C14_AllSettledThenSelect ==
  /\ route.pc = "waiting" => \A i \in DOMAIN Candidates : quotes[i].status # "idle"
  /\ route.pc = "returned"
       => /\ \A i \in DOMAIN Candidates : quotes[i].status = "fulfilled"
          /\ route.result.success <=> SucceededCandidates # {}
          /\ \A i \in SucceededCandidates :
               \E k \in 1..Len(route.result.allQuotes) :
                 route.result.allQuotes[k] = QuoteEntry(quotes, i)

\* a call has returned a best route although its first candidate failed
C14_Witness ==
  /\ route.pc = "returned"
  /\ ~quotes[1].value.success
  /\ SucceededCandidates = {2, 3, 4}
  /\ route.result.success

\* the place of the first run of a step in the invocation, 0 when it did not run
StepPos(step) ==
  IF \E k \in 1..Len(flow.steps) : flow.steps[k] = step
  THEN CHOOSE k \in 1..Len(flow.steps) :
         /\ flow.steps[k] = step
         /\ \A j \in 1..(k - 1) : flow.steps[j] # step
  ELSE 0

Ran(step) == StepPos(step) > 0
FailedAt(step) == \E k \in 1..Len(flow.failed) : flow.failed[k] = step

\* C15: a buy or sell invocation writes the ledger only in a step that follows
\* the receipt of its own swap with status 1; an invocation that failed, threw
\* or got a failed receipt before that leaves the ledger file as it was.
C15_LedgerAfterReceipt ==
  [][(file' # file \/ disk' # disk \/ ncalls' # ncalls)
       => /\ flow.receipt = 1
          /\ Ran("receipt")
          /\ flow'.n = flow.n]_vars

\* a sell whose receipt had status 1 has written its SELL record
C15_Witness ==
  /\ flow.pc = "notify"
  /\ flow.receipt = 1
  /\ call.op = "recordSellTrade" /\ ~call.ret.isNull
  /\ file.trades[Len(file.trades)].type = "SELL"

\* the order of the steps of smartBuyOptimal
C16_StepOrder ==
  /\ Ran("swap")
       => /\ Ran("validateAmount") /\ StepPos("validateAmount") < StepPos("swap")
          /\ Ran("validateToken") /\ StepPos("validateToken") < StepPos("swap")
          /\ Ran("getBestRoute") /\ StepPos("getBestRoute") < StepPos("swap")
  /\ Ran("recordBuyTrade")
       => /\ flow.receipt = 1
          /\ Ran("receipt") /\ StepPos("receipt") < StepPos("recordBuyTrade")
  /\ Ran("sendTweet")
       => Ran("recordBuyTrade") /\ StepPos("recordBuyTrade") < StepPos("sendTweet")

\* C16 as stated: in smartBuyOptimal the swap is attempted only after the
\* amount validation, the token validation and getBestRoute succeeded,
\* recordBuyTrade runs only after a receipt of status 1 and before the
\* notification, and a failure of any step means that no later step runs and
\* that the result is success false.
C16_AnyFailureStops ==
  flow.entry = "smartBuyOptimal"
    => /\ C16_StepOrder
       /\ flow.failed # <<>>
            => /\ flow.steps[Len(flow.steps)] = flow.failed[1]
               /\ flow.result = "failure"

\* the steps up to the receipt
StepsToReceipt ==
  {"validateAmount", "validateToken", "getBestRoute", "validatePath", "quote",
   "computeMinOutput", "swap", "receipt"}

\* C16, amended: the order of the steps is as stated; a failure of a step up
\* to and including the receipt means that no later step runs and that the
\* result is success false; a failure of addTradedToken, of recordBuyTrade or
\* of the notification stops nothing and the result is success true.
C16_FailureToReceiptStops ==
  flow.entry = "smartBuyOptimal"
    => /\ C16_StepOrder
       /\ \A k \in 1..Len(flow.failed) :
            IF flow.failed[k] \in StepsToReceipt
            THEN /\ flow.steps[Len(flow.steps)] = flow.failed[k]
                 /\ Len(flow.failed) = 1
                 /\ flow.result = "failure"
            ELSE /\ flow.receipt = 1
                 /\ flow.pc = "done" => flow.result = "success"
       /\ (flow.pc = "done" /\ flow.failed = <<>>) => flow.result = "success"

\* a smartBuyOptimal ran every step, its recordBuyTrade returned null and it
\* still sent the notification and returned success
C16_Witness ==
  /\ flow.entry = "smartBuyOptimal"
  /\ flow.pc = "done"
  /\ flow.failed = <<"recordBuyTrade">>
  /\ Ran("sendTweet")
  /\ flow.result = "success"

\* C17: once the receipt of the swap has status 1, smartBuy, smartBuyV3,
\* smartSell and smartSellV3 return success true, whatever fails afterwards:
\* the write of the ledger, the write of the watched-token file, the price
\* lookup, the notification.
C17_SuccessAfterReceipt ==
  /\ (flow.pc = "done" /\ flow.receipt = 1) => flow.result = "success"
  /\ (flow.pc = "done" /\ flow.result = "failure") => flow.receipt # 1

\* a smartSell returned success although its price lookup, its recordSellTrade
\* and its notification failed
C17_Witness ==
  /\ flow.method = "smartSell"
  /\ flow.pc = "done"
  /\ flow.receipt = 1
  /\ FailedAt("getTokenPrice") /\ FailedAt("recordSellTrade") /\ FailedAt("sendTweet")
  /\ call.op = "recordSellTrade" /\ ~call.writeOK
  /\ flow.result = "success"

\* floor(expected * (100 - slippage) / 100) on exact numbers
FloorMinOutput(expected, slippage) ==
  LET q == RDiv(RMul(R(expected), RSub(R(100), slippage)), R(100))
  IN q[1] \div q[2]

\* C18 as stated: for every slippage the system accepts, from the
\* configuration or from /slippage, the minimum output is computed without
\* failing the trade, it is floor(expected * (100 - slippage) / 100) and lies
\* between 0 and the expected output.
C18_MinOutputComputed ==
  Ran("computeMinOutput")
    => /\ ~FailedAt("computeMinOutput")
       /\ flow.amountOutMin = FloorMinOutput(flow.expected, flow.slippage)
       /\ 0 <= flow.amountOutMin /\ flow.amountOutMin <= flow.expected

\* C19 as stated: when a sell submits its swap to a router, the allowance of
\* the wallet for that router is at least the amount sold.
C19_AllowanceAtSwap ==
  (flow.method \in {"smartSell", "smartSellV3"} /\ flow.swapRouter # "none")
    => RLe(flow.amount, R(flow.allowanceAtSubmit))

\* C20 as stated: a sell takes the token out of the watched-token list if and
\* only if its receipt has status 1 and the balance of the wallet after the
\* swap is 0; a failed swap leaves the list as it was.
C20_RemovedIffSoldOut ==
  (flow.pc = "done" /\ flow.method \in {"smartSell", "smartSellV3"})
    => LET token == ToLowerCase(flow.tokenAddress)
       IN /\ (token \in flow.tokensBefore /\ token \notin tradedTokens)
               <=> (token \in flow.tokensBefore /\ flow.receipt = 1
                    /\ chain.balance = 0)
          /\ flow.receipt # 1 => tradedTokens = flow.tokensBefore

\* the invocations whose record call has returned a record
Recorded ==
  {p \in DOMAIN eventLoop.tasks :
     /\ eventLoop.tasks[p].pc \in {"sendTweet", "done"}
     /\ ~eventLoop.tasks[p].ret.isNull}

\* C21: when invocations of buys and sells run concurrently in one process, no
\* load-mutate-save cycle of recordBuyTrade or recordSellTrade interleaves
\* with another, and no update is lost: the ledger file holds the record of
\* every invocation whose record call returned one, summary.totalTrades
\* counts them all, and every buy with a receipt of status 1 returned one.
C21_NoLostUpdate ==
  /\ \A p, q \in DOMAIN eventLoop.tasks :
       (p # q /\ eventLoop.tasks[p].pc = "writeFileSync")
         => eventLoop.tasks[q].pc \notin {"readFileSync", "writeFileSync"}
  /\ Len(file.trades) = Cardinality(Recorded)
  /\ file.summary.totalTrades = Cardinality(Recorded)
  /\ \A p \in Recorded : \E i \in 1..Len(file.trades) : file.trades[i].txHash = p
  /\ \A p \in DOMAIN eventLoop.tasks :
       (eventLoop.tasks[p].kind = "buy" /\ eventLoop.tasks[p].receipt = 1
        /\ eventLoop.tasks[p].pc \in {"sendTweet", "done"}) => p \in Recorded

\* a buy and a sell that ran at the same time have both returned, and the
\* ledger holds the BUY and the SELL record
C21_Witness ==
  /\ \A p \in 1..2 : eventLoop.tasks[p].pc = "done" /\ eventLoop.tasks[p].receipt = 1
  /\ \E p \in 1..2 : eventLoop.tasks[p].overlapped
  /\ {eventLoop.tasks[p].kind : p \in 1..2} = {"buy", "sell"}
  /\ Recorded = {1, 2}
  /\ Len(file.trades) = 2

\* the tokens in the token's HOLDING lots of a ledger
HeldTokens(trades, tokenAddress) ==
  LET Sum[k \in 0..Len(trades)] ==
        IF k = 0 THEN Zero
        ELSE IF k \in LotsOf(trades, tokenAddress)
             THEN RAdd(Sum[k - 1], trades[k].tokenAmount)
             ELSE Sum[k - 1]
  IN Sum[Len(trades)]

\* C22: recordSellTrade never allocates more tokens than the HOLDING lots
\* hold: the tokensUsed of the fragments of the new SELL record add up to the
\* smaller of the requested amount and the tokens in the token's HOLDING lots
\* before the call, and when the request is at least those holdings, every
\* HOLDING lot of the token ends SOLD.
C22_NoOversell ==
  SellWritten
    => LET held == HeldTokens(PreTrades, call.tokenAddress)
       IN /\ SumTokensUsed(SellRecord.buyTradesUsed) = RMin(call.tokenAmount, held)
          /\ RLe(held, call.tokenAmount)
               => LotsOf(file.trades, call.tokenAddress) = {}

\* a sell of more tokens than two HOLDING lots held has left both SOLD
C22_Witness ==
  /\ SellWritten
  /\ Cardinality(LotsOf(PreTrades, call.tokenAddress)) = 2
  /\ RLt(HeldTokens(PreTrades, call.tokenAddress), call.tokenAmount)
  /\ Len(SellRecord.buyTradesUsed) = 2
  /\ LotsOf(file.trades, call.tokenAddress) = {}

\* the amount is a positive finite number
PositiveFinite(amount) == IsFinite(amount) /\ RLt(Zero, amount)

\* C23 as stated: a buy (smartBuyOptimal, smartBuy, smartBuyV3) given an
\* amount that does not parse as a positive finite decimal (not a number,
\* zero, negative or infinite) returns success false before any external
\* call: the amount check is its only step.
C23_InvalidAmountNoCall ==
  (flow.entry \in BuyEntries /\ ~PositiveFinite(flow.amount))
    => /\ flow.pc = "done"
       /\ flow.result = "failure"
       /\ flow.steps = <<"validateAmount">>

\* C24 as stated: a swap is submitted only for a chat listed in ADMIN_CHAT_IDS:
\* no /buy, /sell, interactive reply or button press of another chat leads to
\* a submitted swap.
C24_AdminOnly ==
  flow.swapRouter # "none" => IsAuthorizedUser(bot.caller)

\* C25 as stated: /sell with the address of a valid token contract and a
\* positive amount that does not exceed the balance of the wallet ends with
\* smartSellOptimal invoked.
C25_SellInvokesOptimal ==
  (/\ bot.last.handler = "handleSellCommand"
   /\ bot.last.amount # ""
   /\ bot.last.validToken
   /\ PositiveFinite(ParseFloat(bot.last.amount))
   /\ RLe(ParseFloat(bot.last.amount), R(bot.last.balance)))
    => /\ bot.last.outcome = "smartSellOptimal"
       /\ flow.entry = "smartSellOptimal"

\* C26: a text of a chat whose session, opened by /buy or /sell without
\* arguments, is more than 5 minutes old starts no trade: the trade manager is
\* left as it was, the session is deleted and the reply is the timeout message.
C26_ExpiredReplyNoTrade ==
  [][\A c \in Chats :
       (/\ bot.sessions[c].state \in {"waiting_buy_token_address",
                                      "waiting_sell_token_address"}
        /\ bot.now - bot.sessions[c].timestamp > SessionTimeout
        /\ bot'.now = bot.now
        /\ bot' # bot
        /\ bot'.last.handler = "handleTextMessage"
        /\ bot'.last.chat = c)
         => /\ flow' = flow
            /\ file' = file
            /\ bot'.sessions[c] = NoSession
            /\ bot'.last.outcome = "timeout"]_vars

C26_Witness ==
  /\ bot.last.handler = "handleTextMessage"
  /\ bot.last.session = "waiting_buy_token_address"
  /\ bot.last.outcome = "timeout"
  /\ bot.sessions[bot.last.chat] = NoSession
  /\ flow.pc = "idle"

\* the candidates whose quote succeeded with the largest amount of all
MaximalQuotes ==
  {i \in DOMAIN Candidates :
     /\ Succeeded(quotes, i)
     /\ \A j \in DOMAIN Candidates :
          Succeeded(quotes, j)
            => quotes[j].value.expectedAmount <= quotes[i].value.expectedAmount}

\* C27: of the successful quotes that share the largest amount getBestRoute
\* returns the first in the order V2, V3 at 2500, V3 at 500, V3 at 10000, in
\* whatever order the four quotes have settled.
C27_FirstOfTieWins ==
  (route.pc = "returned" /\ route.result.success)
    => \E i \in MaximalQuotes :
         /\ \A j \in MaximalQuotes : i <= j
         /\ route.result.bestRoute.version = Candidates[i].version
         /\ route.result.bestRoute.fee = Candidates[i].fee

C27_Witness ==
  /\ route.pc = "returned"
  /\ route.result.success
  /\ MaximalQuotes = {2, 3}
  /\ Succeeded(quotes, 1)
  /\ route.result.bestRoute.fee = 2500

\* totalTrades = buyTrades + sellTrades = the number of records
StatsAgree(stats) ==
  /\ stats.totalTrades = stats.buyTrades + stats.sellTrades
  /\ stats.totalTrades = stats.records

\* C28 as stated: after any calls of recordBuyTrade and recordSellTrade from
\* the empty ledger getTradingStats().totalTrades is buyTrades + sellTrades
\* and the number of records, and a call that returns null (no lot to sell,
\* or a failed write) changes none of the three.
C28_StatsCount ==
  /\ []StatsAgree(GetTradingStats(TRUE))
  /\ [][(/\ ncalls' = ncalls + 1
         /\ call'.op \in {"recordBuyTrade", "recordSellTrade"}
         /\ call'.ret.isNull)
          => GetTradingStats(TRUE)' = GetTradingStats(TRUE)]_vars

\* the tokens in the token's HOLDING lots that come before lot i
HeldBefore(trades, tokenAddress, i) ==
  LET Sum[k \in 0..Len(trades)] ==
        IF k = 0 THEN Zero
        ELSE IF k \in LotsOf(trades, tokenAddress) /\ ComesBefore(trades, k, i)
             THEN RAdd(Sum[k - 1], trades[k].tokenAmount)
             ELSE Sum[k - 1]
  IN Sum[Len(trades)]

\* record i of the ledger that a recordSellTrade loaded is outside its reach:
\* a record of another token, a BUY record that is SOLD, a SELL record, or a
\* HOLDING lot that comes after the lots that cover the requested amount
OutOfReach(i) ==
  \/ PreTrades[i].tokenAddress # ToLowerCase(call.tokenAddress)
  \/ PreTrades[i].type = "SELL"
  \/ PreTrades[i].type = "BUY" /\ PreTrades[i].status = "SOLD"
  \/ /\ i \in LotsOf(PreTrades, call.tokenAddress)
     /\ RLe(call.tokenAmount, HeldBefore(PreTrades, call.tokenAddress, i))

\* C29: a recordSellTrade leaves as they were the records of other tokens, the
\* BUY records that are SOLD, the earlier SELL records and the HOLDING lots of
\* its token that come after the lot at which the request was covered; a
\* recordBuyTrade leaves every record as it was.
C29_Frame ==
  /\ SellWritten
       => \A i \in 1..Len(PreTrades) :
            OutOfReach(i) => file.trades[i] = PreTrades[i]
  /\ (call.op = "recordBuyTrade" /\ ~call.ret.isNull)
       => \A i \in 1..Len(PreTrades) : file.trades[i] = PreTrades[i]

\* a sell that the first of two HOLDING lots covers has left the second lot,
\* and nothing else, out of its reach
C29_Witness ==
  /\ SellWritten
  /\ RLt(Zero, call.tokenAmount)
  /\ Cardinality(LotsOf(PreTrades, call.tokenAddress)) = 2
  /\ \E i \in LotsOf(PreTrades, call.tokenAddress) :
       /\ OutOfReach(i)
       /\ file.trades[i] = PreTrades[i]
  /\ \E i \in LotsOf(PreTrades, call.tokenAddress) :
       file.trades[i] # PreTrades[i]

\* C30 as stated: a smartSellWithProfit whose swap receipt has status 1
\* returns success true.
C30_ProfitSellSucceeds ==
  (flow.entry = "smartSellWithProfit" /\ flow.pc = "done" /\ flow.receipt = 1)
    => flow.result = "success"
====
